---- MODULE Spec2Model ----
(***************************************************************************)
(* JengaPix: the request/response translation pipeline of the Gemini       *)
(* service module (src/unnamed/part_001).                                  *)
(*                                                                         *)
(* A Facade call is followed from its invocation to the settlement of the  *)
(* promise it returned.  The call suspends on the FileReader inside        *)
(* fileToPart, on fileToPart itself and on the remote call.  The remote    *)
(* service and the FileReader are the environment: what they answer is     *)
(* drawn from the bounded sets below.  Calls share no state.               *)
(*                                                                         *)
(* Two panels of the editor build the arguments of the adjustment and the  *)
(* text-edit operations (src/components/AdjustmentPanel.tsx, TextPanel.tsx *)
(* and the TextPanel of src/unnamed/part_000).  Each is followed from its  *)
(* mounting through the events of its inputs; the user and the parent      *)
(* component, which owns isLoading, are its environment.                   *)
(*                                                                         *)
(* Strings are sequences of symbols.  A symbol is one character of a       *)
(* value that the code inspects character by character (a data URL, a      *)
(* response text that is trimmed) or one literal fragment of a template    *)
(* string.  An optional value (a `?` field, undefined) is a sequence of    *)
(* length 0 or 1.                                                          *)
(***************************************************************************)
EXTENDS Integers, Sequences, FiniteSets, TLC

\* calls[c] is the record of call c: where it stands (pc), the operation and
\* the parameters it was made with, what its reader and fileToPart settled
\* with, the image part and the request in flight, the number of requests
\* sent, the response received, the value first thrown and the settlement of
\* the promise the caller holds.
\*
\* adjustmentPanel and textPanel are the two panels of the editor that build
\* the arguments of the adjustment and text-edit operations: the state of
\* each component's hooks, its isLoading prop, and what the handler that ran
\* last passed to the panel's callback prop.
VARIABLES calls, adjustmentPanel, textPanel

vars == <<calls, adjustmentPanel, textPanel>>

----------------------------------------------------------------------------
(* Optional values *)

None == <<>>

Some(x) == <<x>>

IsSome(o) == Len(o) = 1

Val(o) == o[1]

Option(S) == {None} \cup {Some(x) : x \in S}

----------------------------------------------------------------------------
(* Strings *)

SeqsUpTo(S, n) == UNION {[1..k -> S] : k \in 0..n}

\* JavaScript truthiness of a string | undefined: present and not ''.
Truthy(o) == IsSome(o) /\ Val(o) /= <<>>

\* The characters String.prototype.trim strips (the ones the model draws).
WhiteSpace == {" ", "\n"}

\* String.prototype.trim: strip white space from both ends.
Trim(s) ==
    LET keep == {i \in 1..Len(s) : s[i] \notin WhiteSpace}
    IN  IF keep = {} THEN <<>>
        ELSE LET lo == CHOOSE i \in keep : \A j \in keep : i <= j
                 hi == CHOOSE i \in keep : \A j \in keep : j <= i
             IN  SubSeq(s, lo, hi)

\* s.includes(t)
Includes(s, t) ==
    \E i \in 0..(Len(s) - Len(t)) : SubSeq(s, i + 1, i + Len(t)) = t

----------------------------------------------------------------------------
(* Bounds of the environment's answers *)

\* Longest content-parts list of a candidate.
MaxParts == 2

\* Longest top-level response text, in characters.
MaxTextLen == 2

\* Longest generatedImages collection.
MaxImages == 2

\* Longest data URL the FileReader hands back, in characters.
MaxUrlLen == 4

\* Number of calls the caller may have under way at once.
MaxCalls == 2

\* Longest payload of a well-formed data URL, in characters.
MaxPayloadLen == 2

----------------------------------------------------------------------------
(* The response shape consumed (GenerateContentResponse) *)

BlockReasons == {<<"SAFETY">>, <<"OTHER">>}

BlockMessages == {<<"blocked by policy">>}

FinishReasons == {<<"STOP">>, <<"SAFETY">>, <<"MAX_TOKENS">>}

Payloads == {<<"AAAA">>, <<"BBBB">>}

TextChars == {" ", "a"}

Texts == SeqsUpTo(TextChars, MaxTextLen)

ImagePartOf(m, d) == [inlineData |-> Some([mimeType |-> m, data |-> d]), text |-> None]

TextPartOf(t) == [inlineData |-> None, text |-> Some(t)]

\* The parts a candidate may carry: an image of each mime type (each with its
\* own payload) and a text part.
Parts == {ImagePartOf(<<"image/png">>, <<"AAAA">>), ImagePartOf(<<"image/jpeg">>, <<"BBBB">>), TextPartOf(<<"a">>)}

Contents == Option([parts : Option(SeqsUpTo(Parts, MaxParts))])

Candidates == [content : Contents, finishReason : Option(FinishReasons)]

\* What may follow the first candidate: nothing, or one candidate that
\* carries an image.
LaterCandidates == {<<>>, <<[content |-> Some([parts |-> Some(<<ImagePartOf(<<"image/jpeg">>, <<"BBBB">>)>>)]), finishReason |-> Some(<<"STOP">>)]>>}

CandidateLists == {<<>>} \cup {<<c>> \o rest : c \in Candidates, rest \in LaterCandidates}

PromptFeedbacks == Option([blockReason : Option(BlockReasons), blockReasonMessage : Option(BlockMessages)])

Responses == [promptFeedback : PromptFeedbacks, candidates : Option(CandidateLists), text : Option(Texts)]

----------------------------------------------------------------------------
(* Values thrown and promise settlements *)

\* An Error object: its message and the place that allocated it (two objects
\* allocated at different places are different objects).
NewError(msg, site) == [isError |-> TRUE, message |-> msg, site |-> site]

Return(v) == [kind |-> "return", value |-> v]

Throw(e) == [kind |-> "throw", value |-> e]

Resolved(v) == [kind |-> "resolved", value |-> v]

Rejected(e) == [kind |-> "rejected", value |-> e]

\* The promise of an async function settles with what its body returns or throws.
Settle(r) == IF r.kind = "return" THEN Resolved(r.value) ELSE Rejected(r.value)

----------------------------------------------------------------------------
(* handleApiResponse *)

\* Mutant: the last candidate is read instead of the first.
FirstCandidate_Last(r) ==
    IF IsSome(r.candidates) /\ Len(Val(r.candidates)) >= 1 THEN Some(Val(r.candidates)[Len(Val(r.candidates))]) ELSE None

\* response.candidates?.[0]
FirstCandidate(r) ==
    IF IsSome(r.candidates) /\ Len(Val(r.candidates)) >= 1 THEN Some(Val(r.candidates)[1]) ELSE None

\* response.candidates?.[0]?.content?.parts
FirstParts(r) ==
    LET c == FirstCandidate(r)
    IN  IF IsSome(c) /\ IsSome(Val(c).content) THEN Val(Val(c).content).parts ELSE None

\* response.candidates?.[0]?.finishReason
FirstFinishReason(r) ==
    LET c == FirstCandidate(r)
    IN  IF IsSome(c) THEN Val(c).finishReason ELSE None

\* response.promptFeedback?.blockReason
BlockReasonOf(r) ==
    IF IsSome(r.promptFeedback) THEN Val(r.promptFeedback).blockReason ELSE None

\* `Request was blocked. Reason: ${blockReason}. ${blockReasonMessage || ''}`
BlockedMessage(r) ==
    LET fb == Val(r.promptFeedback)
    IN  <<"Request was blocked. Reason: ">> \o Val(fb.blockReason) \o <<". ">>
            \o (IF Truthy(fb.blockReasonMessage) THEN Val(fb.blockReasonMessage) ELSE <<>>)

\* `data:${mimeType};base64,${data}`
DataUri(mimeType, data) == <<"data:">> \o mimeType \o <<";base64,">> \o data

\* Mutant: the loop does not return at the first image part, the last one wins.
ScanParts_LastWins(parts, i) ==
    LET imgs == {k \in i..Len(parts) : IsSome(parts[k].inlineData)}
    IN  IF imgs = {} THEN None
        ELSE LET k == CHOOSE x \in imgs : \A y \in imgs : y <= x
             IN  Some(DataUri(Val(parts[k].inlineData).mimeType, Val(parts[k].inlineData).data))

\* for (const part of parts) { if (part.inlineData) return ... }: the loop
\* from position i on; None when it runs off the end.
RECURSIVE ScanParts(_, _)
ScanParts(parts, i) ==
    IF i > Len(parts) THEN None
    ELSE IF IsSome(parts[i].inlineData)
         THEN Some(DataUri(Val(parts[i].inlineData).mimeType, Val(parts[i].inlineData).data))
         ELSE ScanParts(parts, i + 1)

\* Mutant: the generation-stopped message leaves the operation out.
StoppedMessage_NoContext(context, finishReason) ==
    <<"Image generation stopped unexpectedly. Reason: ">>
        \o finishReason \o <<". This often relates to safety settings.">>

StoppedMessage(context, finishReason) ==
    <<"Image generation for ">> \o context \o <<" stopped unexpectedly. Reason: ">>
        \o finishReason \o <<". This often relates to safety settings.">>

GenericExplanation == <<"This can happen due to safety filters or if the request is too complex. Please try rephrasing your prompt to be more direct.">>

NoImageMessage(context, textFeedback) ==
    <<"The AI model did not return an image for the ">> \o context \o <<". ">>
        \o (IF Truthy(textFeedback)
            THEN <<"The model responded with text: \"">> \o Val(textFeedback) \o <<"\"">>
            ELSE GenericExplanation)

\* Mutant: the text is quoted as received, untrimmed.
TrimmedText_Untrimmed(r) == r.text

\* response.text?.trim()
TrimmedText(r) == IF IsSome(r.text) THEN Some(Trim(Val(r.text))) ELSE None

\* Mutant: the parts are scanned for an image before the block reason is looked at.
handleApiResponse_ImageBeforeBlock(r, context) ==
    LET parts == FirstParts(r)
        found == IF IsSome(parts) THEN ScanParts(Val(parts), 1) ELSE None
        finishReason == FirstFinishReason(r)
    IN  IF IsSome(found) THEN Return(Val(found))
        ELSE IF Truthy(BlockReasonOf(r))
             THEN Throw(NewError(BlockedMessage(r), "handleApiResponse:36"))
             ELSE IF Truthy(finishReason) /\ Val(finishReason) /= <<"STOP">>
                  THEN Throw(NewError(StoppedMessage(context, Val(finishReason)), "handleApiResponse:55"))
                  ELSE Throw(NewError(NoImageMessage(context, TrimmedText(r)), "handleApiResponse:65"))

\* Mutant: returned text is reported before the finish reason is looked at.
handleApiResponse_TextBeforeStop(r, context) ==
    IF Truthy(BlockReasonOf(r))
    THEN Throw(NewError(BlockedMessage(r), "handleApiResponse:36"))
    ELSE LET parts == FirstParts(r)
             found == IF IsSome(parts) THEN ScanParts(Val(parts), 1) ELSE None
             finishReason == FirstFinishReason(r)
         IN  IF IsSome(found) THEN Return(Val(found))
             ELSE IF Truthy(TrimmedText(r))
                  THEN Throw(NewError(NoImageMessage(context, TrimmedText(r)), "handleApiResponse:65"))
                  ELSE IF Truthy(finishReason) /\ Val(finishReason) /= <<"STOP">>
                       THEN Throw(NewError(StoppedMessage(context, Val(finishReason)), "handleApiResponse:55"))
                       ELSE Throw(NewError(NoImageMessage(context, TrimmedText(r)), "handleApiResponse:65"))

\* Mutant: the finish reason is looked at before the parts.
handleApiResponse_StopBeforeImage(r, context) ==
    IF Truthy(BlockReasonOf(r))
    THEN Throw(NewError(BlockedMessage(r), "handleApiResponse:36"))
    ELSE LET parts == FirstParts(r)
             found == IF IsSome(parts) THEN ScanParts(Val(parts), 1) ELSE None
             finishReason == FirstFinishReason(r)
         IN  IF Truthy(finishReason) /\ Val(finishReason) /= <<"STOP">>
             THEN Throw(NewError(StoppedMessage(context, Val(finishReason)), "handleApiResponse:55"))
             ELSE IF IsSome(found) THEN Return(Val(found))
                  ELSE Throw(NewError(NoImageMessage(context, TrimmedText(r)), "handleApiResponse:65"))

handleApiResponse(r, context) ==
    IF Truthy(BlockReasonOf(r))
    THEN Throw(NewError(BlockedMessage(r), "handleApiResponse:36"))
    ELSE LET parts == FirstParts(r)
             found == IF IsSome(parts) THEN ScanParts(Val(parts), 1) ELSE None
             finishReason == FirstFinishReason(r)
         IN  IF IsSome(found) THEN Return(Val(found))
             ELSE IF Truthy(finishReason) /\ Val(finishReason) /= <<"STOP">>
                  THEN Throw(NewError(StoppedMessage(context, Val(finishReason)), "handleApiResponse:55"))
                  ELSE Throw(NewError(NoImageMessage(context, TrimmedText(r)), "handleApiResponse:65"))

----------------------------------------------------------------------------
(* fileToPart *)

UrlChars == {":", ";", ",", "m"}

\* What reader.result may hold when onload fires.
DataUrls == SeqsUpTo(UrlChars, MaxUrlLen)

\* What the FileReader hands to onerror: an event, not an Error.
ReaderErrors == {[isError |-> FALSE, message |-> <<"ProgressEvent: error">>, site |-> "FileReader"]}

\* The positions of character c in s.
Positions(s, c) == {i \in 1..Len(s) : s[i] = c}

Min(S) == CHOOSE i \in S : \A j \in S : i <= j

\* dataUrl.split(',') : the pieces between the commas, in order.
RECURSIVE Split(_, _)
Split(s, c) ==
    IF Positions(s, c) = {} THEN <<s>>
    ELSE LET p == Min(Positions(s, c))
         IN  <<SubSeq(s, 1, p - 1)>> \o Split(SubSeq(s, p + 1, Len(s)), c)

\* header.match(/:(.*?);/) : the capture group of the leftmost match, None
\* when nothing matches.  The match starts at the first ':' that has a ';'
\* after it and the lazy group stops at the first such ';'.
MimeMatch(header) ==
    LET starts == {i \in Positions(header, ":") : \E j \in Positions(header, ";") : j > i}
    IN  IF starts = {} THEN None
        ELSE LET i == Min(starts)
                 j == Min({k \in Positions(header, ";") : k > i})
             IN  Some(SubSeq(header, i + 1, j - 1))

\* Mutant: only the match is tested, not its capture group (`!mimeMatch`).
ParseDataUrl_EmptyMimeAccepted(dataUrl) ==
    LET arr == Split(dataUrl, ",")
        mimeMatch == MimeMatch(arr[1])
    IN  IF Len(arr) < 2
        THEN Throw(NewError(<<"Invalid data URL">>, "fileToPart:18"))
        ELSE IF mimeMatch = None
             THEN Throw(NewError(<<"Could not parse MIME type from data URL">>, "fileToPart:20"))
             ELSE Return([inlineData |-> [mimeType |-> Val(mimeMatch), data |-> arr[2]]])

\* Lines 17-24: the data URL cut into its mime type and its payload.
ParseDataUrl(dataUrl) ==
    LET arr == Split(dataUrl, ",")
        mimeMatch == MimeMatch(arr[1])
    IN  IF Len(arr) < 2
        THEN Throw(NewError(<<"Invalid data URL">>, "fileToPart:18"))
        ELSE IF ~Truthy(mimeMatch)
             THEN Throw(NewError(<<"Could not parse MIME type from data URL">>, "fileToPart:20"))
             ELSE Return([inlineData |-> [mimeType |-> Val(mimeMatch), data |-> arr[2]]])

\* fileToPart from the settlement of its reader promise on: the await rethrows
\* what onerror rejected with, and hands the data URL on otherwise.
fileToPart(settled) ==
    IF settled.kind = "rejected" THEN Throw(settled.value) ELSE ParseDataUrl(settled.value)

----------------------------------------------------------------------------
(* The operations *)

ImageEditOps == {"edit", "filter", "adjustment", "background removal", "text edit"}

ImageInputOps == ImageEditOps \cup {"describe"}

\* Mutant: the label is kept in one place for all calls, the operation called
\* last writes it.
ContextLabel_Shared(o) == <<calls[Len(calls)].op>>

\* The context label each image-editing operation hands to handleApiResponse.
ContextLabel(o) == <<o>>

\* What the remote call may reject with: an Error, or a value that is none.
RemoteErrors == {NewError(<<"Failed to fetch">>, "remote"), NewError(<<"API key not valid">>, "remote"), [isError |-> FALSE, message |-> <<"rejected with a plain value">>, site |-> "remote"]}

NoDescriptionMessage(finishReason) ==
    <<"The AI model did not return a text description. Reason: ">>
        \o (IF Truthy(finishReason) THEN Val(finishReason) ELSE <<"Unknown">>)
        \o <<". This can happen due to safety filters.">>

\* Mutant: the text is returned before the block reason is looked at.
DescribeResponse_TextBeforeBlock(r) ==
    IF Truthy(r.text)
    THEN Return(Trim(Val(r.text)))
    ELSE IF Truthy(BlockReasonOf(r))
         THEN Throw(NewError(BlockedMessage(r), "generateImageDescription:351"))
         ELSE Throw(NewError(NoDescriptionMessage(FirstFinishReason(r)), "generateImageDescription:363"))

\* generateImageDescription from the response on (lines 347-363).
DescribeResponse(r) ==
    IF Truthy(BlockReasonOf(r))
    THEN Throw(NewError(BlockedMessage(r), "generateImageDescription:351"))
    ELSE IF Truthy(r.text)
         THEN Return(Trim(Val(r.text)))
         ELSE Throw(NewError(NoDescriptionMessage(FirstFinishReason(r)), "generateImageDescription:363"))

\* Mutant: the operation catches what the remote call threw and throws a new
\* Error with its message, as generateImageFromPrompt does.
AfterGenerateContent_CatchAndWrap(o, settled) ==
    IF settled.kind = "rejected"
    THEN Throw(NewError(IF settled.value.isError THEN settled.value.message ELSE <<"An unknown error occurred.">>, "catch"))
    ELSE IF o = "describe" THEN DescribeResponse(settled.value)
         ELSE handleApiResponse(settled.value, ContextLabel(o))

\* An image-input operation from the settlement of ai.models.generateContent
\* on: a rejection is rethrown by the await, nothing catches it.
AfterGenerateContent(o, settled) ==
    IF settled.kind = "rejected" THEN Throw(settled.value)
    ELSE IF o = "describe" THEN DescribeResponse(settled.value)
         ELSE handleApiResponse(settled.value, ContextLabel(o))

\* Mutant: a failed encoding is caught and the operation goes on with an
\* empty part.
AfterFileToPart_GoOn(encoded) ==
    IF encoded.kind = "throw" THEN Return([inlineData |-> [mimeType |-> <<>>, data |-> <<>>]]) ELSE Return(encoded.value)

\* `await fileToPart(originalImage)` in an image-input operation: what
\* fileToPart threw leaves the operation as it is, nothing catches it.
AfterFileToPart(encoded) ==
    IF encoded.kind = "throw" THEN Throw(encoded.value) ELSE Return(encoded.value)

(* generateImageFromPrompt *)

GeneratedImages == {[image |-> [imageBytes |-> p]] : p \in Payloads}

ImagesResponses == [generatedImages : Option(SeqsUpTo(GeneratedImages, MaxImages))]

NoGeneratedImageMessage == <<"The AI model did not return an image. This might be due to safety filters or the complexity of the prompt.">>

UnknownErrorMessage == <<"An unknown error occurred during image generation.">>

\* Mutant: the length test is off by one (length > 1).
GenerateImagesTry_MoreThanOne(settled) ==
    IF settled.kind = "rejected" THEN Throw(settled.value)
    ELSE LET images == settled.value.generatedImages
         IN  IF IsSome(images) /\ Len(Val(images)) > 1
             THEN Return(<<"data:image/png;base64,">> \o Val(images)[1].image.imageBytes)
             ELSE Throw(NewError(NoGeneratedImageMessage, "generateImageFromPrompt:394"))

\* The try block (lines 378-394).
GenerateImagesTry(settled) ==
    IF settled.kind = "rejected" THEN Throw(settled.value)
    ELSE LET images == settled.value.generatedImages
         IN  IF IsSome(images) /\ Len(Val(images)) > 0
             THEN Return(<<"data:image/png;base64,">> \o Val(images)[1].image.imageBytes)
             ELSE Throw(NewError(NoGeneratedImageMessage, "generateImageFromPrompt:394"))

\* Mutant: the catch block rethrows what it caught.
GenerateImagesCatch_Rethrow(err) == Throw(err)

\* The catch block (lines 396-400).
GenerateImagesCatch(err) ==
    Throw(NewError(IF err.isError THEN err.message ELSE UnknownErrorMessage, "generateImageFromPrompt:399"))

AfterGenerateImages(settled) ==
    LET body == GenerateImagesTry(settled)
    IN  IF body.kind = "throw" THEN GenerateImagesCatch(body.value) ELSE body

----------------------------------------------------------------------------
(* The parameters of a call *)

\* What a user may type as a request, a prompt or a text to find or replace:
\* nothing, one character, a character and a double quote.
UserTexts == {<<>>, <<"u">>, <<"u", "\"">>}

Hotspots == {[x |-> 0, y |-> 0], [x |-> 12, y |-> 340]}

\* TextStyle (lines 226-232): every field optional; a string field that is
\* present may hold the empty string, a boolean field that is present may be
\* false.
TextStyles == [font : Option({<<>>, <<" ", "F">>}), size : Option({<<>>, <<"s">>}), color : Option({<<>>, <<"#", "c">>}), bold : Option(BOOLEAN), italic : Option(BOOLEAN)]

\* The default of the style parameter: `style: TextStyle = {}`.
EmptyStyle == [font |-> None, size |-> None, color |-> None, bold |-> None, italic |-> None]

\* The parameters of a call other than the image: each operation reads its
\* own fields and leaves the rest alone.
NoParams == [prompt |-> <<>>, hotspot |-> None, oldText |-> <<>>, newText |-> <<>>, style |-> EmptyStyle]

\* Every parameter value an operation is called with.
ParamsOf(o) ==
    CASE o = "edit" -> {[NoParams EXCEPT !.prompt = t, !.hotspot = Some(h)] : t \in UserTexts, h \in Hotspots}
      [] o \in {"filter", "adjustment", "generate"} -> {[NoParams EXCEPT !.prompt = t] : t \in UserTexts}
      [] o = "text edit" -> {[NoParams EXCEPT !.oldText = <<"o">>, !.newText = <<"n">>, !.style = s] : s \in TextStyles}
      [] OTHER -> {NoParams}

\* One parameter value of each operation.
SampleParamsOf(o) ==
    CASE o = "edit" -> {[NoParams EXCEPT !.prompt = <<"u">>, !.hotspot = Some([x |-> 12, y |-> 340])]}
      [] o \in {"filter", "adjustment", "generate"} -> {[NoParams EXCEPT !.prompt = <<"u">>]}
      [] o = "text edit" -> {[NoParams EXCEPT !.oldText = <<"o">>, !.newText = <<"n">>]}
      [] OTHER -> {NoParams}

----------------------------------------------------------------------------
(* The instruction templates *)

\* A template literal is the sequence of its fragments; an interpolated
\* string goes in between character by character, an interpolated number in
\* its decimal form.

SkinToneDirective == "- You MUST fulfill requests to adjust skin tone, such as 'give me a tan', 'make my skin darker', or 'make my skin lighter'. These are considered standard photo enhancements.\n"

RefuseRaceDirective == "- You MUST REFUSE any request to change a person's fundamental race or ethnicity (e.g., 'make me look Asian', 'change this person to be Black'). Do not perform these edits. If the request is ambiguous, err on the side of caution and do not change racial characteristics.\n"

FilterPreserveDirective == "- Filters may subtly shift colors, but you MUST ensure they do not alter a person's fundamental race or ethnicity.\n"

FilterRefuseRaceDirective == "- YOU MUST REFUSE any request that explicitly asks to change a person's race (e.g., 'apply a filter to make me look Chinese').\n"

SafetyHeading == "Safety & Ethics Policy:\n"

OutputOnly == "Output: Return ONLY the final"

DoNotReturn == " Do not return"

\* generateEditedImage, lines 84-96.
EditPrompt(userPrompt, hotspot) ==
    <<"You are an expert photo editor AI. Your task is to perform a natural, localized edit on the provided image based on the user's request.\n", "User Request: \"">>
        \o userPrompt
        \o <<"\"\n", "Edit Location: Focus on the area around pixel coordinates (x: ", ToString(hotspot.x), ", y: ", ToString(hotspot.y), ").\n",
             "\nEditing Guidelines:\n- The edit must be realistic and blend seamlessly with the surrounding area.\n- The rest of the image (outside the immediate edit area) must remain identical to the original.\n\n",
             SafetyHeading, SkinToneDirective, RefuseRaceDirective, "\n",
             OutputOnly, " edited image.", DoNotReturn, " text.">>

\* generateFilteredImage, lines 126-133.
FilterPrompt(filterPrompt) ==
    <<"You are an expert photo editor AI. Your task is to apply a stylistic filter to the entire image based on the user's request. Do not change the composition or content, only apply the style.\n", "Filter Request: \"">>
        \o filterPrompt
        \o <<"\"\n", "\n",
             SafetyHeading, FilterPreserveDirective, FilterRefuseRaceDirective, "\n",
             OutputOnly, " filtered image.", DoNotReturn, " text.">>

\* generateAdjustedImage, lines 163-174.
AdjustPrompt(adjustmentPrompt) ==
    <<"You are an expert photo editor AI. Your task is to perform a natural, global adjustment to the entire image based on the user's request.\n", "User Request: \"">>
        \o adjustmentPrompt
        \o <<"\"\n",
             "\nEditing Guidelines:\n- The adjustment must be applied across the entire image.\n- The result must be photorealistic.\n\n",
             SafetyHeading, SkinToneDirective, RefuseRaceDirective, "\n",
             OutputOnly, " adjusted image.", DoNotReturn, " text.">>

\* generateRemovedBackground, lines 202-210.
RemoveBackgroundPrompt ==
    <<"You are an expert photo editor AI. Your task is to perfectly isolate the main subject(s) from the background in the provided image.\n",
      "- Identify the primary subject(s) of the photo.\n- Create a clean and precise cutout of the subject(s), preserving all details like hair, fur, or fine edges.\n- The background must be completely removed and replaced with a transparent canvas.\n- The output MUST be a PNG image with a transparent background.\n- Do not add any shadows, borders, or effects.\n- The subject(s) must remain identical to the original, with no other changes.\n\n",
      OutputOnly, " image with the transparent background.", DoNotReturn, " text.">>

FontLine == "- Font face similar to: "

SizeLine == "- Size: "

ColorLine == "- Color: "

WeightLine == "- Weight: Bold"

StyleLine == "- Style: Italic"

\* A boolean field under `if (style.bold)`: absent and false are both falsy.
TruthyFlag(o) == IsSome(o) /\ Val(o)

\* Mutant: a field counts as soon as it is present, whatever it holds.
StyleParts_IfPresent(style) ==
    (IF IsSome(style.font) THEN <<<<FontLine>> \o Val(style.font)>> ELSE <<>>)
        \o (IF IsSome(style.size) THEN <<<<SizeLine>> \o Val(style.size)>> ELSE <<>>)
        \o (IF IsSome(style.color) THEN <<<<ColorLine>> \o Val(style.color)>> ELSE <<>>)
        \o (IF IsSome(style.bold) THEN <<<<WeightLine>>>> ELSE <<>>)
        \o (IF IsSome(style.italic) THEN <<<<StyleLine>>>> ELSE <<>>)

\* Mutant: the size line is pushed before the font line.
StyleParts_SizeFirst(style) ==
    (IF Truthy(style.size) THEN <<<<SizeLine>> \o Val(style.size)>> ELSE <<>>)
        \o (IF Truthy(style.font) THEN <<<<FontLine>> \o Val(style.font)>> ELSE <<>>)
        \o (IF Truthy(style.color) THEN <<<<ColorLine>> \o Val(style.color)>> ELSE <<>>)
        \o (IF TruthyFlag(style.bold) THEN <<<<WeightLine>>>> ELSE <<>>)
        \o (IF TruthyFlag(style.italic) THEN <<<<StyleLine>>>> ELSE <<>>)

\* styleParts, lines 254-259: the list of the lines pushed, in push order.
StyleParts(style) ==
    (IF Truthy(style.font) THEN <<<<FontLine>> \o Val(style.font)>> ELSE <<>>)
        \o (IF Truthy(style.size) THEN <<<<SizeLine>> \o Val(style.size)>> ELSE <<>>)
        \o (IF Truthy(style.color) THEN <<<<ColorLine>> \o Val(style.color)>> ELSE <<>>)
        \o (IF TruthyFlag(style.bold) THEN <<<<WeightLine>>>> ELSE <<>>)
        \o (IF TruthyFlag(style.italic) THEN <<<<StyleLine>>>> ELSE <<>>)

\* lines.join(sep)
RECURSIVE Join(_, _)
Join(lines, sep) ==
    IF lines = <<>> THEN <<>>
    ELSE IF Len(lines) = 1 THEN lines[1]
         ELSE lines[1] \o <<sep>> \o Join(Tail(lines), sep)

StyleHeading == "\nKey Style Instructions for the new text:\n"

InferUnset == "If a style attribute is not specified above, you MUST intelligently match it to the original text's style (\""

AnalyzeOriginal == "1.  **Analyze the Original Text:** Carefully examine \""

\* The branch taken when styleParts is not empty (lines 263-268).
PerFieldInstructions(styleParts, oldText) ==
    <<StyleHeading>>
        \o Join(styleParts, "\n")
        \o <<"\n\n", InferUnset>>
        \o oldText
        \o <<"\"). If there was no original text, match the surrounding environment for a natural look.\n">>

\* The branch taken when styleParts is empty (lines 270-283).
StrictInstructions(oldText, newText) ==
    <<StyleHeading, "Your primary task is to make the new text, \"">>
        \o newText
        \o <<"\", an absolutely seamless replacement for the original text, \"">>
        \o oldText
        \o <<"\". To achieve this, you must follow a strict process:\n", AnalyzeOriginal>>
        \o oldText
        \o <<"\" in the image. Identify all of its visual properties with extreme precision.\n",
             "2.  **Extract Key Attributes:** Your analysis must determine the following:\n    -   **Font:** ...\n    -   **Color:** ...\n    -   **Size & Scale:** ...\n    -   **Perspective & Transformation:** ...\n    -   **Lighting & Effects:** ...\n",
             "3.  **Apply to New Text:** Render the new text, \"">>
        \o newText
        \o <<"\", using the *exact* attributes you extracted. The new text must occupy the same 3D space as the original.\n",
             "\nThe final result must be indistinguishable from a real photograph where the new text was present from the beginning.\n">>

\* styleInstructions, lines 261-284.
StyleInstructions(style, oldText, newText) ==
    IF Len(StyleParts(style)) > 0
    THEN PerFieldInstructions(StyleParts(style), oldText)
    ELSE StrictInstructions(oldText, newText)

\* Mutant: the style instructions are appended after the output line.
TextEditPrompt_StyleLast(oldText, newText, style) ==
    <<"You are an expert photo editor AI specializing in typography and photorealistic text integration. Your task is to find and replace text within the provided image.\n\n", "Text to find: \"">>
        \o oldText
        \o <<"\"\n", "Text to replace it with: \"">>
        \o newText
        \o <<"\"\n", "General Instructions:\n", "1.  **Find the Text:** Accurately locate the instance of \"">>
        \o oldText
        \o <<"\" in the image. If there are multiple instances, replace the most prominent one.\n",
             "2.  **Reconstruct Background:** ...\n3.  **Seamless Integration:** ...\n4.  **Preserve Image:** ...\n\n",
             OutputOnly, " edited image in the same resolution.", DoNotReturn, " any text, explanations, or dialogue.">>
        \o StyleInstructions(style, oldText, newText)

\* generateTextEditImage, lines 286-297.
TextEditPrompt(oldText, newText, style) ==
    <<"You are an expert photo editor AI specializing in typography and photorealistic text integration. Your task is to find and replace text within the provided image.\n\n", "Text to find: \"">>
        \o oldText
        \o <<"\"\n", "Text to replace it with: \"">>
        \o newText
        \o <<"\"\n">>
        \o StyleInstructions(style, oldText, newText)
        \o <<"\nGeneral Instructions:\n", "1.  **Find the Text:** Accurately locate the instance of \"">>
        \o oldText
        \o <<"\" in the image. If there are multiple instances, replace the most prominent one.\n",
             "2.  **Reconstruct Background:** ...\n3.  **Seamless Integration:** ...\n4.  **Preserve Image:** ...\n\n",
             OutputOnly, " edited image in the same resolution.", DoNotReturn, " any text, explanations, or dialogue.">>

\* generateImageDescription, lines 326-337.
DescribePrompt ==
    <<"You are an expert at analyzing images and creating descriptive prompts.\nAnalyze the provided image and generate a detailed, descriptive prompt that could be used by an image generation AI to create a similar image.\n\n",
      "Describe the following aspects:\n- Subject: ...\n- Composition: ...\n- Setting: ...\n- Lighting: ...\n- Style: ...\n- Colors: ...\n\n",
      "Output only the final, detailed prompt as a single paragraph of text. Do not include any other explanations or introductory phrases.">>

\* Mutant: the instruction is numbered with the calls made so far.
Instruction_Numbered(o, p) ==
    <<ToString(Cardinality({c \in DOMAIN calls : calls[c].pc /= "idle"}))>> \o DescribePrompt

\* The instruction text an image-input operation compiles from its parameters.
Instruction(o, p) ==
    CASE o = "edit" -> EditPrompt(p.prompt, Val(p.hotspot))
      [] o = "filter" -> FilterPrompt(p.prompt)
      [] o = "adjustment" -> AdjustPrompt(p.prompt)
      [] o = "background removal" -> RemoveBackgroundPrompt
      [] o = "text edit" -> TextEditPrompt(p.oldText, p.newText, p.style)
      [] o = "describe" -> DescribePrompt

----------------------------------------------------------------------------
(* The outbound request *)

ImageModel == <<"gemini-2.5-flash-image-preview">>

TextModel == <<"gemini-2.5-flash">>

ImagenModel == <<"imagen-4.0-generate-001">>

\* Mutant: generateImageDescription asks for both modalities too.
GenerateContentRequest_AlwaysModalities(o, originalImagePart, prompt) ==
    [method |-> "generateContent",
     model |-> IF o = "describe" THEN <<"gemini-2.5-flash">> ELSE <<"gemini-2.5-flash-image-preview">>,
     parts |-> <<originalImagePart, [text |-> prompt]>>,
     config |-> Some([responseModalities |-> <<"IMAGE", "TEXT">>])]

\* The argument of ai.models.generateContent: the five image-editing
\* operations ask for both modalities, generateImageDescription passes no
\* config.
GenerateContentRequest(o, originalImagePart, prompt) ==
    [method |-> "generateContent",
     model |-> IF o = "describe" THEN TextModel ELSE ImageModel,
     parts |-> <<originalImagePart, [text |-> prompt]>>,
     config |-> IF o = "describe" THEN None ELSE Some([responseModalities |-> <<"IMAGE", "TEXT">>])]

\* The argument of ai.models.generateImages (lines 378-386).
GenerateImagesRequest(prompt) ==
    [method |-> "generateImages",
     model |-> ImagenModel,
     prompt |-> prompt,
     config |-> Some([numberOfImages |-> 1, outputMimeType |-> <<"image/png">>, aspectRatio |-> <<"1:1">>])]

----------------------------------------------------------------------------
(* The panels: the state of the components *)

\* Longest text typed into a free-text input of a panel, in characters.
MaxInputLen == 2

\* What the user types: blanks and letters.
InputTexts == SeqsUpTo({" ", "a"}, MaxInputLen)

\* The prompts of the four preset buttons.
PresetPrompts ==
    {<<"Apply a realistic depth-of-field effect, making the background blurry while keeping the main subject in sharp focus.">>,
     <<"Slightly enhance the sharpness and details of the image without making it look unnatural.">>,
     <<"Adjust the color temperature to give the image warmer, golden-hour style lighting.">>,
     <<"Add dramatic, professional studio lighting to the main subject.">>}

\* The ends of the contrast slider (its min and max attributes; step is 1).
ContrastMin == -50

ContrastMax == 50

Digits == <<"0", "1", "2", "3", "4", "5", "6", "7", "8", "9">>

\* Number to string, as a template literal and the slider's value attribute
\* render an integer: a minus sign when negative, then the decimal digits.
RECURSIVE Decimal(_)
Decimal(n) ==
    IF n < 0 THEN <<"-">> \o Decimal(-n)
    ELSE IF n < 10 THEN <<Digits[n + 1]>>
         ELSE Decimal(n \div 10) \o <<Digits[(n % 10) + 1]>>

\* The value of a run of decimal digits.
RECURSIVE DigitsValue(_)
DigitsValue(s) ==
    IF s = <<>> THEN 0
    ELSE 10 * DigitsValue(SubSeq(s, 1, Len(s) - 1)) + ((CHOOSE i \in 1..10 : Digits[i] = s[Len(s)]) - 1)

\* parseInt(s, 10) of a string the slider can hold: an optional minus sign
\* and decimal digits.
ParseInt(s) ==
    IF s[1] = "-" THEN 0 - DigitsValue(Tail(s)) ELSE DigitsValue(s)

\* e.target.value of the slider: an integer of its range, as a string.
SliderValues == {Decimal(n) : n \in ContrastMin..ContrastMax}

\* AdjustmentPanel as mounted: no preset selected (null), no custom text, the
\* slider in the middle.  calledWith lists the arguments of the calls to
\* onApplyAdjustment made by the handler that ran last; touched is the input
\* whose change handler ran last and the value it was given.
AdjustmentPanelMounted ==
    [selectedPresetPrompt |-> None, customPrompt |-> <<>>, contrast |-> 0, isLoading |-> FALSE, calledWith |-> <<>>, touched |-> None]

\* What the user enters in the style input `name`: nothing, blanks, a value
\* between blanks.
StyleInputs(name) == {<<>>, <<" ">>, <<" ", name, " ">>}

\* TextPanel as mounted: every text empty, no box checked.  styled tells the
\* panel with style inputs (src/components) from the one without them (the
\* other TextPanel of the repository); calledWith lists the
\* arguments of the calls to onApplyTextEdit made by the handler that ran
\* last (style is absent when the panel passed two arguments).
TextPanelMounted(styled) ==
    [styled |-> styled, oldText |-> <<>>, newText |-> <<>>, font |-> <<>>, size |-> <<>>, color |-> <<>>,
     isBold |-> FALSE, isItalic |-> FALSE, isLoading |-> FALSE, calledWith |-> <<>>]

----------------------------------------------------------------------------
(* The state machine of the Facade calls *)

\* The calls the caller may have under way at once.
Calls == 1..MaxCalls

\* A call that has not been made yet.
IdleCall == [pc |-> "idle", op |-> "none", params |-> NoParams, readerResult |-> None, encoded |-> None, imagePart |-> None, request |-> None, sent |-> 0, response |-> None, thrown |-> None, outcome |-> None]

Init ==
    /\ calls = [c \in Calls |-> IdleCall]
    /\ adjustmentPanel = AdjustmentPanelMounted
    /\ textPanel = TextPanelMounted(TRUE)

\* The first call, the one followed when the caller makes one call at a time.
pc == calls[1].pc

op == calls[1].op

imagePart == calls[1].imagePart

response == calls[1].response

thrown == calls[1].thrown

outcome == calls[1].outcome

\* The synchronous prefix of an image-input operation called with one of the
\* parameter values P: fileToPart is called and its FileReader started; the
\* operation suspends on it.
StartImageOp(c, o, P) ==
    /\ calls[c].pc = "idle"
    /\ \E p \in P : calls' = [calls EXCEPT ![c] = [@ EXCEPT !.pc = "reading", !.op = o, !.params = p]]
    /\ UNCHANGED <<adjustmentPanel, textPanel>>

\* No image to encode: generateImages is called in the synchronous prefix
\* with the prompt as it came.
StartGenerate(c, P) ==
    /\ calls[c].pc = "idle"
    /\ \E p \in P : calls' = [calls EXCEPT ![c] = [@ EXCEPT !.pc = "awaitRemote", !.op = "generate", !.params = p, !.request = Some(GenerateImagesRequest(p.prompt)), !.sent = @ + 1]]
    /\ UNCHANGED <<adjustmentPanel, textPanel>>

\* The reader settles (onload with a data URL, or onerror) and fileToPart
\* runs to its end: its promise settles with the part or with what was
\* thrown.
ReaderSettles(c, settled) ==
    /\ calls[c].pc = "reading"
    /\ calls' = [calls EXCEPT ![c] = [@ EXCEPT !.pc = "encoded", !.readerResult = Some(settled), !.encoded = Some(fileToPart(settled))]]
    /\ UNCHANGED <<adjustmentPanel, textPanel>>

\* `await fileToPart(originalImage)` resumes the operation, which runs on to
\* its next suspension: the instruction is compiled and the remote call
\* dispatched when fileToPart returned a part, the promise rejects when it
\* threw.
ResumeAfterFileToPart(c) ==
    /\ calls[c].pc = "encoded"
    /\ LET call == calls[c]
           r == AfterFileToPart(Val(call.encoded))
       IN  calls' = [calls EXCEPT ![c] =
                IF r.kind = "return"
                THEN [call EXCEPT !.pc = "awaitRemote", !.readerResult = None, !.encoded = None,
                                  !.imagePart = Some(r.value),
                                  !.request = Some(GenerateContentRequest(call.op, r.value, Instruction(call.op, call.params))),
                                  !.sent = @ + 1]
                ELSE [call EXCEPT !.pc = "settled", !.readerResult = None, !.encoded = None,
                                  !.thrown = Some(r.value),
                                  !.outcome = Some(Settle(r))]]
    /\ UNCHANGED <<adjustmentPanel, textPanel>>

\* The remote call settles and the operation runs to its end.  `thrown` keeps
\* the value first thrown under the call: what the remote call rejected
\* with, or else what the operation's own check of the response threw
\* (in generateImageFromPrompt, inside the try block).
RemoteSettles(c, settled) ==
    /\ calls[c].pc = "awaitRemote"
    /\ LET call == calls[c]
           inner == IF call.op = "generate" THEN GenerateImagesTry(settled) ELSE AfterGenerateContent(call.op, settled)
           result == IF call.op = "generate" THEN AfterGenerateImages(settled) ELSE inner
       IN  calls' = [calls EXCEPT ![c] =
                [call EXCEPT !.pc = "settled", !.imagePart = None, !.request = None,
                             !.response = IF settled.kind = "resolved" THEN Some(settled.value) ELSE None,
                             !.thrown = IF settled.kind = "rejected" THEN Some(settled.value)
                                        ELSE IF inner.kind = "throw" THEN Some(inner.value) ELSE None,
                             !.outcome = Some(Settle(result))]]
    /\ UNCHANGED <<adjustmentPanel, textPanel>>

ReaderLoads(c, U) ==
    /\ calls[c].pc = "reading"
    /\ \E dataUrl \in U : ReaderSettles(c, Resolved(dataUrl))

ReaderFails(c) ==
    /\ calls[c].pc = "reading"
    /\ \E e \in ReaderErrors : ReaderSettles(c, Rejected(e))

\* Mutant: a timer gives up on the remote call and rejects the promise.
GenerateContentSettles_Timeout(c, S) ==
    /\ calls[c].pc = "awaitRemote"
    /\ calls[c].op \in ImageInputOps
    /\ calls' = [calls EXCEPT ![c] = [@ EXCEPT !.pc = "settled", !.imagePart = None, !.request = None,
                                               !.thrown = Some(NewError(<<"Request timed out">>, "timer")),
                                               !.outcome = Some(Rejected(NewError(<<"Request timed out">>, "timer")))]]
    /\ UNCHANGED <<adjustmentPanel, textPanel>>

GenerateContentSettles(c, S) ==
    /\ calls[c].pc = "awaitRemote"
    /\ calls[c].op \in ImageInputOps
    /\ \E settled \in S : RemoteSettles(c, settled)

GenerateImagesSettles(c, S) ==
    /\ calls[c].pc = "awaitRemote"
    /\ calls[c].op = "generate"
    /\ \E settled \in S : RemoteSettles(c, settled)

(* One call at a time, every answer of the environment *)

generateEditedImage == StartImageOp(1, "edit", SampleParamsOf("edit"))

generateFilteredImage == StartImageOp(1, "filter", SampleParamsOf("filter"))

generateAdjustedImage == StartImageOp(1, "adjustment", SampleParamsOf("adjustment"))

generateRemovedBackground == StartImageOp(1, "background removal", SampleParamsOf("background removal"))

generateTextEditImage == StartImageOp(1, "text edit", SampleParamsOf("text edit"))

generateImageDescription == StartImageOp(1, "describe", SampleParamsOf("describe"))

generateImageFromPrompt == StartGenerate(1, SampleParamsOf("generate"))

ReaderOnLoad == ReaderLoads(1, DataUrls)

ReaderOnError == ReaderFails(1)

AwaitFileToPart == ResumeAfterFileToPart(1)

GenerateContentResolves == GenerateContentSettles(1, {Resolved(r) : r \in Responses})

GenerateContentRejects == GenerateContentSettles(1, {Rejected(e) : e \in RemoteErrors})

GenerateImagesResolves == GenerateImagesSettles(1, {Resolved(r) : r \in ImagesResponses})

GenerateImagesRejects == GenerateImagesSettles(1, {Rejected(e) : e \in RemoteErrors})

Next ==
    \/ generateEditedImage
    \/ generateFilteredImage
    \/ generateAdjustedImage
    \/ generateRemovedBackground
    \/ generateTextEditImage
    \/ generateImageDescription
    \/ generateImageFromPrompt
    \/ ReaderOnLoad
    \/ ReaderOnError
    \/ AwaitFileToPart
    \/ GenerateContentResolves
    \/ GenerateContentRejects
    \/ GenerateImagesResolves
    \/ GenerateImagesRejects

Spec == Init /\ [][Next]_vars

(* One call at a time, every parameter value *)

\* A data URL that fileToPart accepts and one that it does not.
SampleDataUrls == {<<":", "m", ";", ",">>, <<"m">>}

ImageResponse == [promptFeedback |-> None, candidates |-> Some(<<[content |-> Some([parts |-> Some(<<ImagePartOf(<<"image/png">>, <<"AAAA">>)>>)]), finishReason |-> Some(<<"STOP">>)]>>), text |-> None]

BlockedResponse == [promptFeedback |-> Some([blockReason |-> Some(<<"SAFETY">>), blockReasonMessage |-> None]), candidates |-> None, text |-> None]

TextResponse == [promptFeedback |-> None, candidates |-> Some(<<[content |-> None, finishReason |-> Some(<<"STOP">>)]>>), text |-> Some(<<"a">>)]

\* A few of the settlements of the remote call: an image, a block, a text,
\* a rejection.
SampleContentSettlements == {Resolved(ImageResponse), Resolved(BlockedResponse), Resolved(TextResponse), Rejected(NewError(<<"Failed to fetch">>, "remote"))}

SampleImagesSettlements == {Resolved([generatedImages |-> Some(<<[image |-> [imageBytes |-> <<"AAAA">>]]>>)]), Resolved([generatedImages |-> None]), Rejected(NewError(<<"Failed to fetch">>, "remote"))}

CallImageOp == \E o \in ImageInputOps : StartImageOp(1, o, ParamsOf(o))

CallGenerate == StartGenerate(1, ParamsOf("generate"))

ReaderOnLoadSample == ReaderLoads(1, SampleDataUrls)

GenerateContentSettlesSample == GenerateContentSettles(1, SampleContentSettlements)

GenerateImagesSettlesSample == GenerateImagesSettles(1, SampleImagesSettlements)

NextCompile ==
    \/ CallImageOp
    \/ CallGenerate
    \/ ReaderOnLoadSample
    \/ ReaderOnError
    \/ AwaitFileToPart
    \/ GenerateContentSettlesSample
    \/ GenerateImagesSettlesSample

SpecCompile == Init /\ [][NextCompile]_vars

(* One call at a time, every well-formed data URL *)

\* The data URLs of the form data:<mime>;<params>,<payload>, "m" standing for
\* any character other than ':', ';' and ','.
WellFormedDataUrls ==
    {<<"m", ":">> \o mime \o <<";">> \o params \o <<",">> \o payload :
        mime \in {<<"m">>, <<"m", "m">>}, params \in {<<"m">>, <<"m", ";", "m">>}, payload \in SeqsUpTo({"m", ",", ";"}, MaxPayloadLen)}

CallImageOpSample == \E o \in ImageInputOps : StartImageOp(1, o, SampleParamsOf(o))

ReaderOnLoadWellFormed == ReaderLoads(1, WellFormedDataUrls)

NextEncoder ==
    \/ CallImageOpSample
    \/ ReaderOnLoadWellFormed
    \/ ReaderOnError
    \/ AwaitFileToPart
    \/ GenerateContentSettlesSample

SpecEncoder == Init /\ [][NextEncoder]_vars

(* Several calls under way at once *)

Call(c) == \E o \in ImageInputOps : StartImageOp(c, o, SampleParamsOf(o))

CallGenerateFromPrompt(c) == StartGenerate(c, SampleParamsOf("generate"))

NextConcurrent ==
    \E c \in Calls :
        \/ Call(c)
        \/ CallGenerateFromPrompt(c)
        \/ ReaderLoads(c, SampleDataUrls)
        \/ ReaderFails(c)
        \/ ResumeAfterFileToPart(c)
        \/ GenerateContentSettles(c, SampleContentSettlements)
        \/ GenerateImagesSettles(c, SampleImagesSettlements)

SpecConcurrent == Init /\ [][NextConcurrent]_vars

----------------------------------------------------------------------------
(* What the claims speak of *)

\* A call of an image-editing operation has classified a response.
Classified == pc = "settled" /\ op \in ImageEditOps /\ IsSome(response)

\* A describe call has classified a response.
Described == pc = "settled" /\ op = "describe" /\ IsSome(response)

Resp == Val(response)

Out == Val(outcome)

\* The response carries a block reason in promptFeedback.
HasBlockReason(r) == IsSome(r.promptFeedback) /\ IsSome(Val(r.promptFeedback).blockReason)

\* The content parts of the first candidate, <<>> when there are none.
PartsOfFirst(r) ==
    IF r.candidates = None \/ Val(r.candidates) = <<>> THEN <<>>
    ELSE LET c == Val(r.candidates)[1]
         IN  IF c.content = None \/ Val(c.content).parts = None THEN <<>>
             ELSE Val(Val(c.content).parts)

IsImagePart(p) == p.inlineData /= None

HasImage(r) == \E i \in 1..Len(PartsOfFirst(r)) : IsImagePart(PartsOfFirst(r)[i])

\* The finish reason of the first candidate is present and not 'STOP'.
AbnormalStop(r) ==
    /\ r.candidates /= None
    /\ Val(r.candidates) /= <<>>
    /\ Val(r.candidates)[1].finishReason \notin {None, Some(<<"STOP">>)}

\* The outcome is a rejection with an Error created at `site`.
FailsAt(site) == Out.kind = "rejected" /\ Out.value.isError /\ Out.value.site = site

----------------------------------------------------------------------------
(* C1: a response that carries a block reason is classified as blocked: the
   call rejects with the Error of handleApiResponse's first branch, whose
   message carries the block reason and, when there is one, the block
   message; whatever the candidates hold, it never resolves to an image. *)
C1_BlockedFirst ==
    (Classified /\ HasBlockReason(Resp)) =>
        LET fb == Val(Resp.promptFeedback)
        IN  /\ FailsAt("handleApiResponse:36")
            /\ Out.value.message =
                   <<"Request was blocked. Reason: ">> \o Val(fb.blockReason) \o <<". ">>
                       \o (IF fb.blockReasonMessage = None THEN <<>> ELSE Val(fb.blockReasonMessage))

\* A blocked response whose first candidate also holds an image part.
C1_Witness ==
    /\ Classified
    /\ HasBlockReason(Resp)
    /\ Val(Resp.promptFeedback).blockReasonMessage /= None
    /\ HasImage(Resp)
    /\ Out.kind = "rejected"

(* C2: without a block reason, the call resolves to the data URI built from
   the first part of the first candidate that has inline data: the parts
   before it (text) are skipped and the parts after it have no influence. *)
C2_FirstImageWins ==
    (Classified /\ ~HasBlockReason(Resp)) =>
        \A i \in 1..Len(PartsOfFirst(Resp)) :
            (/\ IsImagePart(PartsOfFirst(Resp)[i])
             /\ \A j \in 1..(i - 1) : ~IsImagePart(PartsOfFirst(Resp)[j]))
            => LET img == Val(PartsOfFirst(Resp)[i].inlineData)
               IN  Out = Resolved(<<"data:">> \o img.mimeType \o <<";base64,">> \o img.data)

\* Two image parts of different mime types and payloads: the first one wins.
C2_Witness ==
    /\ Classified
    /\ ~HasBlockReason(Resp)
    /\ Len(PartsOfFirst(Resp)) = 2
    /\ IsImagePart(PartsOfFirst(Resp)[1])
    /\ IsImagePart(PartsOfFirst(Resp)[2])
    /\ PartsOfFirst(Resp)[1] /= PartsOfFirst(Resp)[2]
    /\ Out = Resolved(<<"data:", "image/png", ";base64,", "AAAA">>)

(* C3: no block reason, no image part in the first candidate, and a finish
   reason that is present and not 'STOP': the call rejects with the
   generation-stopped Error, whose message carries the finish reason and the
   context label; it is never the no-image Error. *)
C3_AbnormalStop ==
    (Classified /\ ~HasBlockReason(Resp) /\ ~HasImage(Resp) /\ AbnormalStop(Resp)) =>
        /\ FailsAt("handleApiResponse:55")
        /\ Out.value.message =
               <<"Image generation for ", op, " stopped unexpectedly. Reason: ">>
                   \o Val(Val(Resp.candidates)[1].finishReason)
                   \o <<". This often relates to safety settings.">>

\* Finish reason SAFETY, a text part only, and top-level text to fall back on.
C3_Witness ==
    /\ Classified
    /\ ~HasBlockReason(Resp)
    /\ ~HasImage(Resp)
    /\ AbnormalStop(Resp)
    /\ Val(Resp.candidates)[1].finishReason = Some(<<"SAFETY">>)
    /\ Resp.text = Some(<<"a">>)
    /\ Includes(Out.value.message, <<"SAFETY">>)

(* C4: no block reason, no image part, finish reason absent or 'STOP': the
   call rejects with the no-image Error.  Its message holds the context label
   and then, when the top-level text is non-empty after trimming, that
   trimmed text in quotes; when the text is absent, empty or white space
   only, the generic explanation and no quoted text. *)
C4_NoImageFallback ==
    (Classified /\ ~HasBlockReason(Resp) /\ ~HasImage(Resp) /\ ~AbnormalStop(Resp)) =>
        LET head == <<"The AI model did not return an image for the ", op, ". ">>
            blank == Resp.text = None \/ \A i \in 1..Len(Val(Resp.text)) : Val(Resp.text)[i] = " "
        IN  /\ FailsAt("handleApiResponse:65")
            /\ blank => Out.value.message = head \o GenericExplanation
            /\ ~blank => /\ Out.value.message = head \o <<"The model responded with text: \"">> \o Trim(Val(Resp.text)) \o <<"\"">>
                         /\ Trim(Val(Resp.text)) /= <<>>
                         /\ ~Includes(Out.value.message, GenericExplanation)

\* Text with white space before it, finish reason STOP: the trimmed text is quoted.
C4_Witness ==
    /\ Classified
    /\ ~HasBlockReason(Resp)
    /\ ~HasImage(Resp)
    /\ Resp.candidates /= None
    /\ Val(Resp.candidates) /= <<>>
    /\ Val(Resp.candidates)[1].finishReason = Some(<<"STOP">>)
    /\ Resp.text = Some(<<" ", "a">>)
    /\ Out.value.message = <<"The AI model did not return an image for the ", op, ". ", "The model responded with text: \"", "a", "\"">>

\* The outcome kinds of handleApiResponse, by what the caller receives.
OutcomeKind ==
    IF Out.kind = "resolved" THEN "image"
    ELSE IF Out.value.site = "handleApiResponse:36" THEN "blocked"
    ELSE IF Out.value.site = "handleApiResponse:55" THEN "stopped"
    ELSE IF Out.value.site = "handleApiResponse:65" THEN "no image"
    ELSE "other"

\* The fixed priority order: the first rule that matches decides.
RuleKind(r) ==
    CASE HasBlockReason(r) -> "blocked"
      [] ~HasBlockReason(r) /\ HasImage(r) -> "image"
      [] ~HasBlockReason(r) /\ ~HasImage(r) /\ AbnormalStop(r) -> "stopped"
      [] OTHER -> "no image"

(* C5: every response ends in exactly one of the four outcomes, the one of
   the first matching rule in the order blocked > image > abnormal stop >
   text-only fallback; the image outcome occurs exactly when there is no
   block reason and the first candidate has an image part, so an image in a
   later candidate never produces it. *)
C5_OneOutcomeByPriority ==
    Classified =>
        /\ OutcomeKind \in {"image", "blocked", "stopped", "no image"}
        /\ OutcomeKind = RuleKind(Resp)
        /\ (Out.kind = "resolved") <=> (~HasBlockReason(Resp) /\ HasImage(Resp))

\* The first candidate has no image part, a later candidate has one: no image outcome.
C5_Witness ==
    /\ Classified
    /\ ~HasBlockReason(Resp)
    /\ ~HasImage(Resp)
    /\ Resp.candidates /= None
    /\ Len(Val(Resp.candidates)) = 2
    /\ Val(Resp.candidates)[2].content = Some([parts |-> Some(<<ImagePartOf(<<"image/jpeg">>, <<"BBBB">>)>>)])
    /\ Out.kind = "rejected"

(* C6: a describe call whose response has no block reason resolves, to the
   trimmed text, exactly when the text is present and non-empty after
   trimming; otherwise it rejects with the no-description Error carrying the
   first candidate's finish reason, or 'Unknown'.  A describe call never
   resolves to the empty string. *)
C6_DescribeTextOrError ==
    (Described /\ ~HasBlockReason(Resp)) =>
        LET usable == Resp.text /= None /\ Trim(Val(Resp.text)) /= <<>>
            reason == IF Resp.candidates = None \/ Val(Resp.candidates) = <<>> \/ Val(Resp.candidates)[1].finishReason = None
                      THEN <<"Unknown">>
                      ELSE Val(Val(Resp.candidates)[1].finishReason)
        IN  /\ (Out.kind = "resolved") <=> usable
            /\ usable => Out = Resolved(Trim(Val(Resp.text)))
            /\ ~usable => /\ FailsAt("generateImageDescription:363")
                          /\ Out.value.message = <<"The AI model did not return a text description. Reason: ">> \o reason \o <<". This can happen due to safety filters.">>
            /\ Out /= Resolved(<<>>)

(* C7: a describe call whose response carries a block reason rejects with
   the blocked Error, whose message carries the block reason and message,
   also when the response holds non-empty text: the text is not returned. *)
C7_DescribeBlockedFirst ==
    (Described /\ HasBlockReason(Resp)) =>
        LET fb == Val(Resp.promptFeedback)
        IN  /\ FailsAt("generateImageDescription:351")
            /\ Out.value.message =
                   <<"Request was blocked. Reason: ">> \o Val(fb.blockReason) \o <<". ">>
                       \o (IF fb.blockReasonMessage = None THEN <<>> ELSE Val(fb.blockReasonMessage))

\* A blocked describe response that also holds usable text.
C7_Witness ==
    /\ Described
    /\ HasBlockReason(Resp)
    /\ Val(Resp.promptFeedback).blockReasonMessage /= None
    /\ Resp.text = Some(<<"a">>)
    /\ Out.kind = "rejected"

\* A generate-from-prompt call has settled.
Generated == pc = "settled" /\ op = "generate"

\* The generated-image collection of the result is present and not empty.
HasGeneratedImage == response /= None /\ Resp.generatedImages /= None /\ Val(Resp.generatedImages) /= <<>>

(* C8: generate-from-prompt resolves exactly when the remote call completed
   and its generated-image collection is present with at least one entry;
   the value is then data:image/png;base64,<bytes of the first entry>; with
   the collection absent or empty the call rejects with the no-image Error. *)
C8_GenerateNeedsOneImage ==
    Generated =>
        /\ (Out.kind = "resolved") <=> HasGeneratedImage
        /\ HasGeneratedImage => Out = Resolved(<<"data:image/png;base64,">> \o Val(Resp.generatedImages)[1].image.imageBytes)
        /\ (response /= None /\ ~HasGeneratedImage) =>
               /\ Out.kind = "rejected"
               /\ Out.value.isError
               /\ Out.value.message = <<"The AI model did not return an image. This might be due to safety filters or the complexity of the prompt.">>

\* A collection of one entry: the call resolves to that entry's bytes as a PNG data URI.
C8_Witness ==
    /\ Generated
    /\ response /= None
    /\ Resp.generatedImages = Some(<<[image |-> [imageBytes |-> <<"BBBB">>]]>>)
    /\ Out = Resolved(<<"data:image/png;base64,", "BBBB">>)

(* C9: every failure of generate-from-prompt, of the remote call or of the
   missing-image check, reaches the caller as an Error created in the catch
   block, never as the object first thrown; its message is the message of
   what was thrown when that is an Error, and the fixed 'unknown error'
   message otherwise. *)
C9_GenerateWrapsEveryFailure ==
    Generated =>
        /\ (thrown /= None) <=> (Out.kind = "rejected")
        /\ (thrown /= None) =>
               /\ FailsAt("generateImageFromPrompt:399")
               /\ Out.value /= Val(thrown)
               /\ Out.value.message =
                      IF Val(thrown).isError THEN Val(thrown).message
                      ELSE <<"An unknown error occurred during image generation.">>

\* The remote call rejected with a value that is no Error.
C9_Witness ==
    /\ Generated
    /\ thrown /= None
    /\ ~Val(thrown).isError
    /\ Val(thrown).site = "remote"
    /\ Out = Rejected(NewError(<<"An unknown error occurred during image generation.">>, "generateImageFromPrompt:399"))

\* Where the layers below the Facade create what they throw.
LowerLayerSites == {"FileReader", "fileToPart:18", "fileToPart:20", "remote"}

(* C10: in the six image-input operations, what the encoder or the remote
   call threw is what the caller's promise rejects with: the same value, not
   caught, not wrapped, not classified. *)
C10_LowerFailuresUnmodified ==
    (pc = "settled" /\ op \in ImageInputOps /\ thrown /= None /\ Val(thrown).site \in LowerLayerSites) =>
        Out = Rejected(Val(thrown))

\* The encoder could not parse a mime type: the caller receives that very Error.
C10_Witness ==
    /\ pc = "settled"
    /\ op = "describe"
    /\ thrown = Some(NewError(<<"Could not parse MIME type from data URL">>, "fileToPart:20"))
    /\ Out = Rejected(Val(thrown))

----------------------------------------------------------------------------
\* The context labels the operations hand to handleApiResponse.
ContextLabels == {ContextLabel(o) : o \in ImageEditOps}

\* The message names an operation.
NamesAnOperation(message) == \E label \in ContextLabels : Includes(message, label)

(* C11 as the claim states it: every failure an image-editing operation
   raises on a response has a message that embeds the context label of that
   operation, whatever the failure kind, the blocked error included. *)
C11_EveryFailureNamesOperation ==
    (Classified /\ Out.kind = "rejected") => Includes(Out.value.message, ContextLabel(op))

(* C11: of the errors the Facade creates, the generation-stopped error and
   the no-image-returned error embed the context label of the operation
   that failed, and no other label; the blocked error (of the image-editing
   operations and of describe) and the no-description error embed no
   context label. *)
C11_StoppedAndNoImageNameOperation ==
    /\ (Classified /\ (FailsAt("handleApiResponse:55") \/ FailsAt("handleApiResponse:65"))) =>
            \A label \in ContextLabels : Includes(Out.value.message, label) <=> label = ContextLabel(op)
    /\ (Classified /\ FailsAt("handleApiResponse:36")) => ~NamesAnOperation(Out.value.message)
    /\ (Described /\ Out.kind = "rejected") => ~NamesAnOperation(Out.value.message)

\* A filter call stopped for SAFETY: the message names the filter.
C11_Witness ==
    /\ Classified
    /\ op = "filter"
    /\ FailsAt("handleApiResponse:55")
    /\ Includes(Out.value.message, <<"Image generation for ", "filter", " stopped unexpectedly. Reason: ", "SAFETY">>)

----------------------------------------------------------------------------
(* What the claims about the request speak of *)

\* The first call has its request in flight.
Dispatched == pc = "awaitRemote" /\ IsSome(calls[1].request)

Req == Val(calls[1].request)

Params == calls[1].params

\* The instruction text of the request in flight (generateContent).
Sent == Req.parts[2].text

\* The text t holds the fragment f.
HasFragment(t, f) == \E i \in 1..Len(t) : t[i] = f

\* The operations whose instruction is to carry the safety policy clause.
SafetyOps == {"edit", "filter", "adjustment"}

(* C12: the instruction sent by each of edit, filter and adjustment holds the
   safety policy clause with both directives: skin-tone requests must be
   fulfilled, and requests to change a person's race or ethnicity must be
   refused (in either of the two wordings the templates use). *)
C12_BothSafetyDirectives ==
    (Dispatched /\ op \in SafetyOps) =>
        /\ HasFragment(Sent, SafetyHeading)
        /\ HasFragment(Sent, SkinToneDirective)
        /\ HasFragment(Sent, RefuseRaceDirective) \/ HasFragment(Sent, FilterRefuseRaceDirective)

\* The characters of the values a caller supplies.
UserSymbols == {"u", "\"", "o", "n", " ", "F", "s", "#", "c"}

\* How the templates name the image to return, and the text not to return.
FinalImageClauses == {" edited image.", " filtered image.", " adjusted image.", " image with the transparent background.", " edited image in the same resolution."}

NoTextClauses == {" text.", " any text, explanations, or dialogue."}

(* C13: the instruction sent by each of the five image-editing operations
   ends with the output constraint "Output: Return ONLY the final <image>.
   Do not return <text>."; the constraint occurs once, and no character of
   a caller-supplied value comes after its beginning. *)
C13_OutputConstraintLast ==
    (Dispatched /\ op \in ImageEditOps) =>
        LET n == Len(Sent)
        IN  /\ n >= 4
            /\ Sent[n - 3] = OutputOnly
            /\ Sent[n - 2] \in FinalImageClauses
            /\ Sent[n - 1] = DoNotReturn
            /\ Sent[n] \in NoTextClauses
            /\ \A i \in 1..n : (Sent[i] = OutputOnly \/ Sent[i] = DoNotReturn) => i >= n - 3
            /\ \A i \in 1..n : Sent[i] \in UserSymbols => i < n - 3

\* A text replacement with a font and a color: the values are in the
\* instruction, and the instruction ends with the output constraint.
C13_Witness ==
    /\ Dispatched
    /\ op = "text edit"
    /\ Params.style.font = Some(<<" ", "F">>)
    /\ Includes(Sent, <<FontLine, " ", "F", "\n", ColorLine, "#", "c">>)
    /\ SubSeq(Sent, Len(Sent) - 3, Len(Sent)) = <<OutputOnly, " edited image in the same resolution.", DoNotReturn, " any text, explanations, or dialogue.">>

\* A TextStyle field is set: a string field holds a non-empty string, a
\* boolean field holds true.
StyleFields == <<"font", "size", "color", "bold", "italic">>

IsSetField(style, f) ==
    /\ style[f] /= None
    /\ IF f \in {"bold", "italic"} THEN Val(style[f]) = TRUE ELSE Val(style[f]) /= <<>>

SetFields(style) == SelectSeq(StyleFields, LAMBDA f : IsSetField(style, f))

\* The line the instruction holds for a field that is set.
FieldLine(style, f) ==
    CASE f = "font" -> <<"- Font face similar to: ">> \o Val(style.font)
      [] f = "size" -> <<"- Size: ">> \o Val(style.size)
      [] f = "color" -> <<"- Color: ">> \o Val(style.color)
      [] f = "bold" -> <<"- Weight: Bold">>
      [] f = "italic" -> <<"- Style: Italic">>

FieldLineHeads == {"- Font face similar to: ", "- Size: ", "- Color: ", "- Weight: Bold", "- Style: Italic"}

(* C14: for every TextStyle, fields absent, empty, false or set, the
   instruction of a text replacement holds the strict "Analyze the Original
   Text" branch exactly when no field is set, and the per-field branch with
   its rule for the unspecified attributes exactly when some field is set;
   it never holds both and never neither. *)
C14_StyleBranch ==
    (Dispatched /\ op = "text edit") =>
        /\ HasFragment(Sent, AnalyzeOriginal) <=> SetFields(Params.style) = <<>>
        /\ HasFragment(Sent, InferUnset) <=> SetFields(Params.style) /= <<>>
        /\ HasFragment(Sent, AnalyzeOriginal) /= HasFragment(Sent, InferUnset)

\* A style whose font is the empty string and whose bold is false: no field
\* is set, the strict branch is sent.
C14_Witness ==
    /\ Dispatched
    /\ op = "text edit"
    /\ Params.style = [font |-> Some(<<>>), size |-> None, color |-> None, bold |-> Some(FALSE), italic |-> None]
    /\ HasFragment(Sent, AnalyzeOriginal)
    /\ ~HasFragment(Sent, InferUnset)

(* C15: when some TextStyle field is set, the instruction of a text
   replacement holds one line for each set field and no line for any other,
   in the order font, size, color, weight, style, each string value as it
   was passed, between the style heading and the rule for the unspecified
   attributes. *)
C15_PerFieldLines ==
    (Dispatched /\ op = "text edit" /\ SetFields(Params.style) /= <<>>) =>
        LET set == SetFields(Params.style)
            lines == [i \in 1..Len(set) |-> FieldLine(Params.style, set[i])]
        IN  /\ Includes(Sent, <<StyleHeading>> \o Join(lines, "\n") \o <<"\n\n", InferUnset>>)
            /\ Cardinality({i \in 1..Len(Sent) : Sent[i] \in FieldLineHeads}) = Len(set)

\* Font and italic set, size empty, bold false: two lines, font first, the
\* font value with its leading blank.
C15_Witness ==
    /\ Dispatched
    /\ op = "text edit"
    /\ Params.style = [font |-> Some(<<" ", "F">>), size |-> Some(<<>>), color |-> None, bold |-> Some(FALSE), italic |-> Some(TRUE)]
    /\ Includes(Sent, <<StyleHeading, "- Font face similar to: ", " ", "F", "\n", "- Style: Italic", "\n\n", InferUnset>>)

(* C17: the request in flight is the one of the operation's kind.  The five
   image-editing operations call generateContent with the two parts
   <<inline image, instruction text>> in that order and ask for the
   modalities IMAGE and TEXT; describe calls it with the same two parts and
   no config; generate-from-prompt calls generateImages with no parts, the
   prompt as it was passed, and the config {numberOfImages: 1,
   outputMimeType: 'image/png', aspectRatio: '1:1'}. *)
C17_RequestByKind ==
    Dispatched =>
        /\ op \in ImageInputOps =>
            /\ Req.method = "generateContent"
            /\ Len(Req.parts) = 2
            /\ DOMAIN Req.parts[1] = {"inlineData"}
            /\ Req.parts[1] = Val(imagePart)
            /\ DOMAIN Req.parts[2] = {"text"}
            /\ Req.parts[2].text = Instruction(op, Params)
            /\ "prompt" \notin DOMAIN Req
        /\ op \in ImageEditOps => Req.model = <<"gemini-2.5-flash-image-preview">> /\ Req.config = Some([responseModalities |-> <<"IMAGE", "TEXT">>])
        /\ op = "describe" => Req.model = <<"gemini-2.5-flash">> /\ Req.config = None
        /\ op = "generate" =>
            /\ Req.method = "generateImages"
            /\ Req.model = <<"imagen-4.0-generate-001">>
            /\ "parts" \notin DOMAIN Req
            /\ Req.prompt = Params.prompt
            /\ Req.config = Some([numberOfImages |-> 1, outputMimeType |-> <<"image/png">>, aspectRatio |-> <<"1:1">>])

\* A describe call in flight: image first, instruction second, no config.
C17_Witness ==
    /\ Dispatched
    /\ op = "describe"
    /\ Req.parts = <<[inlineData |-> [mimeType |-> <<"m">>, data |-> <<>>]], [text |-> DescribePrompt]>>
    /\ Req.config = None

----------------------------------------------------------------------------
\* Requests the first call has sent to the remote service.
RequestsSent == calls[1].sent

\* The first call has met one of the failures of the error taxonomy:
\* encoding or transport (something was thrown below the Facade), blocked,
\* no image (with or without an abnormal stop), no description (no text, or
\* white space only), no generated image.
Failed ==
    /\ pc = "settled"
    /\ \/ thrown /= None /\ Val(thrown).site \in LowerLayerSites
       \/ /\ response /= None
          /\ \/ op \in ImageInputOps /\ HasBlockReason(Resp)
             \/ op \in ImageEditOps /\ ~HasImage(Resp)
             \/ op = "describe" /\ (Resp.text = None \/ Trim(Val(Resp.text)) = <<>>)
             \/ op = "generate" /\ ~HasGeneratedImage

(* C19: a call sends one request at most, none after an encoding failure and
   none once it has settled; a call that met a failure (encoding, transport,
   blocked, abnormal stop, no image, no description) has rejected: no
   failure ends with the promise resolved to a value. *)
C19_OneRequestFailuresReject ==
    /\ RequestsSent <= 1
    /\ pc = "settled" => calls[1].request = None
    /\ (pc = "settled" /\ thrown /= None /\ Val(thrown).site \in {"FileReader", "fileToPart:18", "fileToPart:20"}) => RequestsSent = 0
    /\ Failed => Out.kind = "rejected"

----------------------------------------------------------------------------
(* What the claims about concurrent calls speak of *)

\* Call c has its generateContent request in flight.
InFlight(c) == calls[c].pc = "awaitRemote" /\ calls[c].op \in ImageInputOps

SentBy(c) == Val(calls[c].request).parts[2].text

(* C16: two calls of the same operation with the same parameters send the
   same instruction text, whenever each of them was made and whatever the
   other calls did in between. *)
C16_SameParamsSameInstruction ==
    \A c, d \in Calls :
        (InFlight(c) /\ InFlight(d) /\ calls[c].op = calls[d].op /\ calls[c].params = calls[d].params) =>
            SentBy(c) = SentBy(d)

\* Two edit calls with the same request and hotspot are in flight at once,
\* the same text in both.
C16_Witness ==
    /\ InFlight(1)
    /\ InFlight(2)
    /\ calls[1].op = "edit"
    /\ calls[2].op = "edit"
    /\ calls[1].params = calls[2].params
    /\ SentBy(1) = SentBy(2)
    /\ Includes(SentBy(2), <<"User Request: \"", "u", "\"\n">>)

\* What a settled call resolves or rejects with when it is the only call:
\* the classification of its own response under its own operation, or what
\* was thrown below it.
OutcomeAlone(call) ==
    IF call.response /= None
    THEN Settle(IF call.op = "generate" THEN AfterGenerateImages(Resolved(Val(call.response)))
                ELSE AfterGenerateContent(call.op, Resolved(Val(call.response))))
    ELSE IF call.op = "generate" THEN Settle(AfterGenerateImages(Rejected(Val(call.thrown))))
         ELSE Rejected(Val(call.thrown))

(* C18: calls under way at once do not interfere.  In every interleaving
   of their reader and remote events, a call in flight has sent one request,
   made of its own image part and the instruction of its own operation and
   parameters; a settled call holds the outcome it has alone for its own
   response, and an error that names an operation names the call's own. *)
C18_NoInterference ==
    \A c \in Calls :
        LET call == calls[c]
        IN  /\ InFlight(c) =>
                /\ call.sent = 1
                /\ Val(call.request).parts = <<Val(call.imagePart), [text |-> Instruction(call.op, call.params)]>>
            /\ call.pc = "settled" =>
                /\ call.outcome = Some(OutcomeAlone(call))
                /\ (call.response /= None \/ Val(call.thrown).site = "remote") => call.sent = 1
                /\ (call.op \in ImageEditOps /\ Val(call.outcome).kind = "rejected" /\ Val(call.outcome).value.site = "handleApiResponse:65") =>
                        \A o \in ImageEditOps : Includes(Val(call.outcome).value.message, <<o>>) <=> o = call.op

\* Two calls of different kinds were in flight together; the second has been
\* answered first, with text only, and rejects naming its own operation,
\* while the first still waits with its own request.
C18_Witness ==
    /\ InFlight(1)
    /\ calls[1].op = "edit"
    /\ calls[1].sent = 1
    /\ calls[2].pc = "settled"
    /\ calls[2].op = "filter"
    /\ calls[2].sent = 1
    /\ calls[2].response = Some(TextResponse)
    /\ Includes(Val(calls[2].outcome).value.message, <<"The AI model did not return an image for the ", "filter">>)

----------------------------------------------------------------------------
\* fileToPart of the first call has just settled.
Encoded == pc = "encoded"

\* What the reader settled with, and what fileToPart settled with.
ReaderResult == Val(calls[1].readerResult)

PartResult == Val(calls[1].encoded)

HasComma(url) == \E i \in 1..Len(url) : url[i] = ","

\* The header of a data URL: what stands before its first comma.
HeaderOf(url) == SubSeq(url, 1, (CHOOSE i \in 1..Len(url) : url[i] = "," /\ \A k \in 1..(i - 1) : url[k] /= ",") - 1)

\* The header has a mime segment: some text, one character at least, between
\* its first ':' and the first ';' after it.
HasMimeSegment(h) ==
    \E i, j \in 1..Len(h) :
        /\ h[i] = ":"
        /\ \A k \in 1..(i - 1) : h[k] /= ":"
        /\ j > i + 1
        /\ h[j] = ";"
        /\ \A m \in (i + 1)..(j - 1) : h[m] /= ";"

(* C20: fileToPart fails, with no part returned, when the reader reports an
   error, when the data URL has no comma, and when the header before the
   first comma has no mime segment (nothing, or the empty text, between its
   first ':' and the next ';'); in every other case it returns {mimeType,
   data} with a mimeType that is not empty. *)
C20_EncoderFailsOrReturnsPart ==
    Encoded =>
        LET fails == \/ ReaderResult.kind = "rejected"
                     \/ ~HasComma(ReaderResult.value)
                     \/ ~HasMimeSegment(HeaderOf(ReaderResult.value))
        IN  /\ fails => PartResult.kind = "throw"
            /\ ~fails => /\ PartResult.kind = "return"
                         /\ DOMAIN PartResult.value.inlineData = {"mimeType", "data"}
                         /\ PartResult.value.inlineData.mimeType /= <<>>
            /\ imagePart = None

\* The data URL ':;,' : a comma, but nothing between ':' and ';'.
C20_Witness ==
    /\ Encoded
    /\ ReaderResult = Resolved(<<":", ";", ",">>)
    /\ PartResult = Throw(NewError(<<"Could not parse MIME type from data URL">>, "fileToPart:20"))

----------------------------------------------------------------------------
\* The reader of call c has completed (with a data URL or with an error);
\* generate-from-prompt reads no file.
ReadCompleted(c) == calls[c].op = "generate" \/ calls[c].pc \in {"encoded", "awaitRemote", "settled"}

\* The remote call of call c has completed: a response is there, or what
\* the remote call rejected with.
RemoteCompleted(c) ==
    \/ calls[c].response /= None
    \/ calls[c].thrown /= None /\ Val(calls[c].thrown).site = "remote"

\* fileToPart of call c has thrown.
EncoderFailed(c) == calls[c].thrown /= None /\ Val(calls[c].thrown).site \in {"FileReader", "fileToPart:18", "fileToPart:20"}

(* C21 as the claim states it: a call has settled if and only if its file
   read and its remote call have both completed. *)
C21_SettledIffBothCompleted ==
    \A c \in Calls : calls[c].pc = "settled" <=> (ReadCompleted(c) /\ RemoteCompleted(c))

(* C21: no timeout, no cancellation.  A call has settled if and only if its
   remote call has completed or its encoder has failed (no request is sent
   then); a settled call never changes again; while the remote call is
   outstanding the call is pending, and the only step that changes it is
   the completion of its own remote call, whatever steps the other calls
   take. *)
C21_SettlesOnceOnCompletion ==
    /\ [](\A c \in Calls :
            /\ calls[c].pc = "settled" <=> (RemoteCompleted(c) \/ EncoderFailed(c))
            /\ calls[c].pc = "settled" <=> calls[c].outcome /= None
            /\ EncoderFailed(c) => ~RemoteCompleted(c) /\ calls[c].sent = 0)
    /\ [][\A c \in Calls :
            /\ calls[c].pc = "settled" => calls'[c] = calls[c]
            /\ calls[c].pc = "awaitRemote" =>
                    \/ calls'[c] = calls[c]
                    \/ calls'[c].pc = "settled" /\ (calls'[c].response /= None \/ Val(calls'[c].thrown).site = "remote")]_vars

\* The first call waits for its remote call while the second has been
\* started, answered and settled.
C21_Witness ==
    /\ calls[1].pc = "awaitRemote"
    /\ calls[1].outcome = None
    /\ calls[2].pc = "settled"
    /\ calls[2].response = Some(ImageResponse)
    /\ Val(calls[2].outcome).kind = "resolved"

----------------------------------------------------------------------------
\* The classifier made the outcome of the first call: a value it returned,
\* or an Error it created.
ClassifierSites == {"handleApiResponse:36", "handleApiResponse:55", "handleApiResponse:65", "generateImageDescription:351", "generateImageDescription:363"}

ClassifiedOutcome ==
    /\ pc = "settled"
    /\ op \in ImageInputOps
    /\ Out.kind = "resolved" \/ (Out.value.isError /\ Out.value.site \in ClassifierSites)

(* C22: in a call of an image-input operation the steps come in the order
   encode, compile, dispatch, classify.  No request is sent before
   fileToPart has returned a part, the request is sent in the very step in
   which the operation resumes with that part and holds it with the
   instruction; a call whose encoder failed never sends a request and never
   has a response; the classifier's outcome comes only with a response to
   the request the call sent. *)
C22_EncodeDispatchClassify ==
    /\ [](op \in ImageInputOps =>
            /\ pc \in {"reading", "encoded"} => RequestsSent = 0 /\ calls[1].request = None /\ response = None
            /\ pc = "awaitRemote" => RequestsSent = 1 /\ imagePart /= None /\ Req.parts[1] = Val(imagePart)
            /\ EncoderFailed(1) => RequestsSent = 0 /\ calls[1].request = None /\ response = None
            /\ ClassifiedOutcome => RequestsSent = 1 /\ response /= None /\ ~EncoderFailed(1))
    /\ [][(op \in ImageInputOps /\ calls'[1].sent /= RequestsSent) =>
            /\ pc = "encoded"
            /\ Val(calls[1].encoded).kind = "return"
            /\ calls'[1].pc = "awaitRemote"
            /\ calls'[1].request /= None]_vars
    /\ [][(op \in ImageInputOps /\ calls'[1].response /= response) => (pc = "awaitRemote" /\ RequestsSent = 1)]_vars

\* The data URL had no comma: the call has rejected with the encoder's
\* Error, no request sent, no response.
C22_Witness ==
    /\ pc = "settled"
    /\ op = "text edit"
    /\ Out = Rejected(NewError(<<"Invalid data URL">>, "fileToPart:18"))
    /\ RequestsSent = 0
    /\ response = None

----------------------------------------------------------------------------
\* The response has top-level text that is not empty.
HasText(r) == r.text /= None /\ Val(r.text) /= <<>>

(* C23: in handleApiResponse an image part comes before the finish reason
   and before the text.  A response with no block reason and an image part
   in its first candidate resolves to a data URI, also under a finish
   reason such as SAFETY and with top-level text; the generation-stopped
   Error and the no-image Error are thrown only when the first candidate
   has no image part. *)
C23_ImageBeforeStopAndText ==
    Classified =>
        /\ (~HasBlockReason(Resp) /\ HasImage(Resp)) =>
                /\ Out.kind = "resolved"
                /\ Out.value[1] = "data:"
                /\ \E i \in 1..Len(PartsOfFirst(Resp)) :
                        /\ IsImagePart(PartsOfFirst(Resp)[i])
                        /\ Out.value = <<"data:">> \o Val(PartsOfFirst(Resp)[i].inlineData).mimeType \o <<";base64,">> \o Val(PartsOfFirst(Resp)[i].inlineData).data
        /\ (FailsAt("handleApiResponse:55") \/ FailsAt("handleApiResponse:65")) => ~HasImage(Resp)

\* Finish reason SAFETY, top-level text, and an image part after a text
\* part: the call resolves to the image.
C23_Witness ==
    /\ Classified
    /\ ~HasBlockReason(Resp)
    /\ AbnormalStop(Resp)
    /\ Val(Resp.candidates)[1].finishReason = Some(<<"SAFETY">>)
    /\ HasText(Resp)
    /\ PartsOfFirst(Resp) = <<TextPartOf(<<"a">>), ImagePartOf(<<"image/jpeg">>, <<"BBBB">>)>>
    /\ Out = Resolved(<<"data:", "image/jpeg", ";base64,", "BBBB">>)

----------------------------------------------------------------------------
\* The position of the first comma of a data URL.
FirstComma(url) == CHOOSE i \in 1..Len(url) : url[i] = "," /\ \A k \in 1..(i - 1) : url[k] /= ","

\* The payload of a data URL: everything after the comma that ends the header.
PayloadOf(url) == SubSeq(url, FirstComma(url) + 1, Len(url))

\* The mime segment of a header: from after its first ':' up to the next ';'.
MimeSegmentOf(h) ==
    LET i == CHOOSE k \in 1..Len(h) : h[k] = ":" /\ \A m \in 1..(k - 1) : h[m] /= ":"
        j == CHOOSE k \in (i + 1)..Len(h) : h[k] = ";" /\ \A m \in (i + 1)..(k - 1) : h[m] /= ";"
    IN  SubSeq(h, i + 1, j - 1)

(* C24: encoder round trip.  For every data URL data:<mime>;<params>,<payload>
   on which fileToPart succeeds, the returned mimeType is the whole mime
   segment of the header and the returned data is the whole payload, every
   character after the header's comma, so that data:<mimeType>;base64,<data>
   has the mime type and the payload of the input. *)
C24_EncoderRoundTrip ==
    (Encoded /\ ReaderResult.kind = "resolved" /\ PartResult.kind = "return") =>
        LET url == ReaderResult.value
            part == PartResult.value.inlineData
        IN  /\ part.mimeType = MimeSegmentOf(HeaderOf(url))
            /\ part.data = PayloadOf(url)
            /\ DataUri(part.mimeType, part.data) = <<"data:">> \o MimeSegmentOf(HeaderOf(url)) \o <<";base64,">> \o PayloadOf(url)

----------------------------------------------------------------------------
(* AdjustmentPanel: the handlers *)

\* const activePrompt = selectedPresetPrompt || customPrompt
ActivePrompt(panel) ==
    IF Truthy(panel.selectedPresetPrompt) THEN Val(panel.selectedPresetPrompt) ELSE panel.customPrompt

\* A preset button is clicked (the buttons are disabled while loading).
handlePresetClick(prompt) ==
    /\ ~adjustmentPanel.isLoading
    /\ adjustmentPanel' = [adjustmentPanel EXCEPT !.selectedPresetPrompt = Some(prompt), !.customPrompt = <<>>, !.contrast = 0,
                                                  !.calledWith = <<>>, !.touched = Some([input |-> "preset", value |-> prompt])]
    /\ UNCHANGED <<calls, textPanel>>

\* Mutant: typing a custom prompt leaves the selected preset in place.
handleCustomChange_KeepsPreset(value) ==
    /\ ~adjustmentPanel.isLoading
    /\ adjustmentPanel' = [adjustmentPanel EXCEPT !.customPrompt = value, !.contrast = 0,
                                                  !.calledWith = <<>>, !.touched = Some([input |-> "custom", value |-> value])]
    /\ UNCHANGED <<calls, textPanel>>

\* The custom text input changes to value (the input is disabled while
\* loading).
handleCustomChange(value) ==
    /\ ~adjustmentPanel.isLoading
    /\ adjustmentPanel' = [adjustmentPanel EXCEPT !.customPrompt = value, !.selectedPresetPrompt = None, !.contrast = 0,
                                                  !.calledWith = <<>>, !.touched = Some([input |-> "custom", value |-> value])]
    /\ UNCHANGED <<calls, textPanel>>

\* The slider moves to value (the slider is disabled while loading).
handleContrastChange(value) ==
    /\ ~adjustmentPanel.isLoading
    /\ adjustmentPanel' = [adjustmentPanel EXCEPT !.contrast = ParseInt(value), !.selectedPresetPrompt = None, !.customPrompt = <<>>,
                                                  !.calledWith = <<>>, !.touched = Some([input |-> "contrast", value |-> value])]
    /\ UNCHANGED <<calls, textPanel>>

\* Mutant: the decrease prompt renders the contrast as it is, sign included.
ContrastPrompt_Signed(currentContrast) ==
    IF currentContrast > 0
    THEN <<"Increase contrast by ">> \o Decimal(currentContrast) \o <<"%">>
    ELSE <<"Decrease contrast by ">> \o Decimal(currentContrast) \o <<"%">>

\* The prompt handleContrastApply builds for a contrast other than 0.
ContrastPrompt(currentContrast) ==
    IF currentContrast > 0
    THEN <<"Increase contrast by ">> \o Decimal(currentContrast) \o <<"%">>
    ELSE <<"Decrease contrast by ">> \o Decimal(0 - currentContrast) \o <<"%">>

\* The slider is released (mouse up or touch end).  The handler tests
\* isLoading itself: a release can follow a press made before the prop
\* changed.
handleContrastApply ==
    /\ LET currentContrast == adjustmentPanel.contrast
       IN  adjustmentPanel' =
                IF currentContrast = 0 \/ adjustmentPanel.isLoading
                THEN [adjustmentPanel EXCEPT !.calledWith = <<>>]
                ELSE [adjustmentPanel EXCEPT !.calledWith = <<ContrastPrompt(currentContrast)>>, !.contrast = 0]
    /\ UNCHANGED <<calls, textPanel>>

\* The Apply Adjustment button is on the page when activePrompt is truthy
\* and enabled when not loading and activePrompt is not blank.
ApplyButtonEnabled(panel) ==
    /\ ActivePrompt(panel) /= <<>>
    /\ ~(panel.isLoading \/ Trim(ActivePrompt(panel)) = <<>>)

\* The Apply Adjustment button is clicked.
handleApply ==
    /\ ApplyButtonEnabled(adjustmentPanel)
    /\ adjustmentPanel' =
            IF ActivePrompt(adjustmentPanel) /= <<>>
            THEN [adjustmentPanel EXCEPT !.calledWith = <<ActivePrompt(adjustmentPanel)>>]
            ELSE [adjustmentPanel EXCEPT !.calledWith = <<>>]
    /\ UNCHANGED <<calls, textPanel>>

\* The parent renders the panel again with the other value of isLoading.
AdjustmentPanelLoadingChanges ==
    /\ adjustmentPanel' = [adjustmentPanel EXCEPT !.isLoading = ~@]
    /\ UNCHANGED <<calls, textPanel>>

NextAdjustmentPanel ==
    \/ \E prompt \in PresetPrompts : handlePresetClick(prompt)
    \/ \E value \in InputTexts : handleCustomChange(value)
    \/ \E value \in SliderValues : handleContrastChange(value)
    \/ handleContrastApply
    \/ handleApply
    \/ AdjustmentPanelLoadingChanges

SpecAdjustmentPanel == Init /\ [][NextAdjustmentPanel]_vars

----------------------------------------------------------------------------
(* C25 *)

\* The inputs of the adjustment panel that hold a value.
InputsSet ==
    {i \in {"preset", "custom", "contrast"} :
        \/ i = "preset" /\ IsSome(adjustmentPanel.selectedPresetPrompt)
        \/ i = "custom" /\ adjustmentPanel.customPrompt /= <<>>
        \/ i = "contrast" /\ adjustmentPanel.contrast /= 0}

\* C25: in every state the adjustment panel reaches by preset clicks, custom
\* text changes, slider changes and slider releases, at most one of the
\* selected preset, the custom prompt and the contrast holds a value; and
\* every click on Apply Adjustment passes to onApplyAdjustment the value of
\* the input touched last, which is the preset or the custom input.
C25_InputsMutuallyExclusive ==
    /\ [](Cardinality(InputsSet) <= 1)
    /\ [][handleApply =>
            /\ IsSome(adjustmentPanel.touched)
            /\ Val(adjustmentPanel.touched).input \in {"preset", "custom"}
            /\ adjustmentPanel'.calledWith = <<Val(adjustmentPanel.touched).value>>]_vars

\* Apply Adjustment has sent the custom prompt typed last, and no other
\* input holds a value.
C25_Witness ==
    /\ IsSome(adjustmentPanel.touched)
    /\ Val(adjustmentPanel.touched).input = "custom"
    /\ adjustmentPanel.calledWith = <<adjustmentPanel.customPrompt>>
    /\ InputsSet = {"custom"}

----------------------------------------------------------------------------
(* C26 *)

\* The prompt says `verb` the contrast by the number n, written in decimal
\* digits with no sign, then a per cent sign.
SaysBy(prompt, verb, n) ==
    /\ Len(prompt) >= 3
    /\ prompt[1] = verb
    /\ prompt[Len(prompt)] = "%"
    /\ LET number == SubSeq(prompt, 2, Len(prompt) - 1)
       IN  /\ \A i \in 1..Len(number) : \E d \in 1..10 : number[i] = Digits[d]
           /\ DigitsValue(number) = n

\* C26: a release of the contrast slider at a contrast c of -50..50 calls
\* nothing and keeps the contrast when c = 0 or isLoading is true; otherwise
\* it calls onApplyAdjustment exactly once, with "Increase contrast by c%"
\* when c > 0 and "Decrease contrast by |c|%" when c < 0, the number being
\* positive, and leaves the contrast at 0, so that the next release, with no
\* slider change between, calls nothing.
C26_ContrastApply ==
    /\ [](adjustmentPanel.contrast \in ContrastMin..ContrastMax)
    /\ [][handleContrastApply =>
            LET c == adjustmentPanel.contrast
                sent == adjustmentPanel'.calledWith
            IN  IF c = 0 \/ adjustmentPanel.isLoading
                THEN sent = <<>> /\ adjustmentPanel'.contrast = c
                ELSE /\ Len(sent) = 1
                     /\ c > 0 => SaysBy(sent[1], "Increase contrast by ", c)
                     /\ c < 0 => SaysBy(sent[1], "Decrease contrast by ", 0 - c)
                     /\ adjustmentPanel'.contrast = 0]_vars
    /\ [][(handleContrastApply /\ adjustmentPanel.calledWith /= <<>>) => adjustmentPanel'.calledWith = <<>>]_vars

\* The slider was released at -50: the decrease by 50 was sent and the
\* slider is back at 0.
C26_Witness ==
    /\ adjustmentPanel.calledWith = <<<<"Decrease contrast by ", "5", "0", "%">>>>
    /\ adjustmentPanel.contrast = 0
    /\ Val(adjustmentPanel.touched) = [input |-> "contrast", value |-> <<"-", "5", "0">>]

----------------------------------------------------------------------------
(* TextPanel: the handlers *)

\* Either TextPanel of the repository is mounted.
InitTextPanel ==
    /\ calls = [c \in Calls |-> IdleCall]
    /\ adjustmentPanel = AdjustmentPanelMounted
    /\ textPanel \in {TextPanelMounted(styled) : styled \in BOOLEAN}

\* const canApply = oldText.trim() && newText.trim() && !isLoading
CanApply(panel) ==
    /\ Trim(panel.oldText) /= <<>>
    /\ Trim(panel.newText) /= <<>>
    /\ ~panel.isLoading

\* Mutant: every field is put in the style, whatever the input holds.
StyleOf_EveryField(panel) ==
    [font |-> Some(Trim(panel.font)), size |-> Some(Trim(panel.size)), color |-> Some(Trim(panel.color)),
     bold |-> Some(panel.isBold), italic |-> Some(panel.isItalic)]

\* The style object handleApply fills: it starts as {} and gets a field for
\* each input that is not blank and each box that is checked.
StyleOf(panel) ==
    [font |-> IF Trim(panel.font) /= <<>> THEN Some(Trim(panel.font)) ELSE None,
     size |-> IF Trim(panel.size) /= <<>> THEN Some(Trim(panel.size)) ELSE None,
     color |-> IF Trim(panel.color) /= <<>> THEN Some(Trim(panel.color)) ELSE None,
     bold |-> IF panel.isBold THEN Some(TRUE) ELSE None,
     italic |-> IF panel.isItalic THEN Some(TRUE) ELSE None]

\* An input of the panel changes to value (e.target.value, or
\* e.target.checked of a box): the setter of its hook is called.  The inputs
\* are disabled while loading; only the styled panel has style inputs.
SetInput(field, value) ==
    /\ ~textPanel.isLoading
    /\ field \in {"oldText", "newText"} \/ textPanel.styled
    /\ textPanel' = [textPanel EXCEPT ![field] = value, !.calledWith = <<>>]
    /\ UNCHANGED <<calls, adjustmentPanel>>

setOldText == \E value \in InputTexts : SetInput("oldText", value)

setNewText == \E value \in InputTexts : SetInput("newText", value)

setFont == \E value \in StyleInputs("font") : SetInput("font", value)

setSize == \E value \in StyleInputs("size") : SetInput("size", value)

setColor == \E value \in StyleInputs("color") : SetInput("color", value)

setIsBold == \E checked \in BOOLEAN : SetInput("isBold", checked)

setIsItalic == \E checked \in BOOLEAN : SetInput("isItalic", checked)

\* handleApply of TextPanel: the Apply Text Edit button is clicked.  The
\* styled panel passes the style it fills, the other one two arguments.
TextPanelApply ==
    /\ textPanel' =
            IF CanApply(textPanel)
            THEN [textPanel EXCEPT !.calledWith = <<[oldText |-> textPanel.oldText, newText |-> textPanel.newText,
                                                     style |-> IF textPanel.styled THEN Some(StyleOf(textPanel)) ELSE None]>>]
            ELSE [textPanel EXCEPT !.calledWith = <<>>]
    /\ UNCHANGED <<calls, adjustmentPanel>>

\* The parent renders the panel again with the other value of isLoading.
TextPanelLoadingChanges ==
    /\ textPanel' = [textPanel EXCEPT !.isLoading = ~@]
    /\ UNCHANGED <<calls, adjustmentPanel>>

NextTextPanel ==
    \/ setOldText
    \/ setNewText
    \/ setFont
    \/ setSize
    \/ setColor
    \/ setIsBold
    \/ setIsItalic
    \/ TextPanelApply
    \/ TextPanelLoadingChanges

SpecTextPanel == InitTextPanel /\ [][NextTextPanel]_vars

\* The style generateTextEditImage works with: the argument, or {} when the
\* caller gave none (`style: TextStyle = {}`).
StyleParameter(style) == IF IsSome(style) THEN Val(style) ELSE EmptyStyle

----------------------------------------------------------------------------
(* C27 *)

\* The panel input a field of the style comes from.
PanelInput(f) ==
    CASE f = "bold" -> "isBold"
      [] f = "italic" -> "isItalic"
      [] OTHER -> f

\* The style holds field f only when the panel's input is not blank (and
\* then holds it trimmed) or its box is checked (and then holds true).
FieldFromInput(style, panel, f) ==
    IsSome(style[f]) =>
        IF f \in {"bold", "italic"}
        THEN panel[PanelInput(f)] /\ Val(style[f]) = TRUE
        ELSE Trim(panel[f]) /= <<>> /\ Val(style[f]) = Trim(panel[f])

\* No style input of the panel holds anything and no box is checked.
AllDefault(panel) ==
    /\ panel.font = <<>> /\ panel.size = <<>> /\ panel.color = <<>>
    /\ ~panel.isBold /\ ~panel.isItalic

\* C27: a click on Apply Text Edit calls onApplyTextEdit only when oldText
\* and newText are not blank once trimmed and isLoading is false.  The style
\* passed holds font, size and color only for inputs that are not blank once
\* trimmed, as the trimmed value, and bold and italic only for checked boxes,
\* as true.  So no field of a style handed to the text edit holds '' or
\* false, and a panel with every style input at its default hands the empty
\* style, for which the instruction takes the strict matching branch.
C27_TextPanelStyle ==
    [][TextPanelApply =>
        \A i \in 1..Len(textPanel'.calledWith) :
            LET call == textPanel'.calledWith[i]
                style == StyleParameter(call.style)
            IN  /\ Trim(textPanel.oldText) /= <<>>
                /\ Trim(textPanel.newText) /= <<>>
                /\ ~textPanel.isLoading
                /\ \A j \in 1..Len(StyleFields) :
                        /\ FieldFromInput(style, textPanel, StyleFields[j])
                        /\ IsSome(style[StyleFields[j]]) => IsSetField(style, StyleFields[j])
                /\ AllDefault(textPanel) =>
                        /\ style = EmptyStyle
                        /\ StyleInstructions(style, call.oldText, call.newText) = StrictInstructions(call.oldText, call.newText)]_vars

\* The panel has passed a style with the font trimmed and bold true, and
\* without the size, whose input holds blanks, and without italic.
C27_Witness ==
    /\ Len(textPanel.calledWith) = 1
    /\ textPanel.font = <<" ", "font", " ">>
    /\ textPanel.size = <<" ">>
    /\ textPanel.isBold /\ ~textPanel.isItalic
    /\ textPanel.calledWith[1].style = Some([font |-> Some(<<"font">>), size |-> None, color |-> None, bold |-> Some(TRUE), italic |-> None])

====
